---------------------------- MODULE Spec2Model ----------------------------
(***************************************************************************)
(* Visa-status aggregation and caching layer of the visa wizard server:    *)
(* the file cache (visaCache: read/write, getCachedVisaInfo,               *)
(* setCachedVisaInfo, getCachedVisaMap, setCachedVisaMap), the aggregator  *)
(* buildCountries, the cached provider fetch getVisaMap and the route      *)
(* handlers GET /api/countries, /api/visa-map, /api/countries/:id and      *)
(* /api/visa-info/:destinationCode.                                        *)
(*                                                                         *)
(* JavaScript strings on which the code computes (country codes, comma     *)
(* separated code lists, cache keys) are sequences of one-character        *)
(* strings, so that split, trim, toUpperCase and toLowerCase are computed. *)
(* JSON values are records tagged by a field t.                            *)
(***************************************************************************)
EXTENDS Integers, Sequences, FiniteSets, TLC

(***************************************************************************)
(* Bounds of the model.                                                    *)
(***************************************************************************)
\* number of times the clock is advanced in a behaviour
MaxTicks == 4
\* number of requests that can be in flight at once (request slots)
NumReqs == 2
\* number of times the server process is restarted in a behaviour
MaxRestarts == 1
\* number of clicks on the geography on display
MaxClicks == 1

(***************************************************************************)
(* JavaScript string primitives.                                           *)
(***************************************************************************)
LowerLetters ==
  << "a","b","c","d","e","f","g","h","i","j","k","l","m",
     "n","o","p","q","r","s","t","u","v","w","x","y","z" >>

UpperLetters ==
  << "A","B","C","D","E","F","G","H","I","J","K","L","M",
     "N","O","P","Q","R","S","T","U","V","W","X","Y","Z" >>

\* String.prototype.toUpperCase on one character
UpperChar(c) ==
  IF \E i \in 1..26 : LowerLetters[i] = c
    THEN UpperLetters[CHOOSE i \in 1..26 : LowerLetters[i] = c]
    ELSE c

\* String.prototype.toLowerCase on one character
LowerChar(c) ==
  IF \E i \in 1..26 : UpperLetters[i] = c
    THEN LowerLetters[CHOOSE i \in 1..26 : UpperLetters[i] = c]
    ELSE c

toUpperCase(s) == [i \in 1..Len(s) |-> UpperChar(s[i])]

toLowerCase(s) == [i \in 1..Len(s) |-> LowerChar(s[i])]

IsSpace(c) == c = " "

RECURSIVE TrimStart(_)
TrimStart(s) ==
  IF s # << >> /\ IsSpace(Head(s)) THEN TrimStart(Tail(s)) ELSE s

RECURSIVE TrimEnd(_)
TrimEnd(s) ==
  IF s # << >> /\ IsSpace(s[Len(s)])
    THEN TrimEnd(SubSeq(s, 1, Len(s) - 1))
    ELSE s

\* String.prototype.trim
trim(s) == TrimEnd(TrimStart(s))

\* String.prototype.split(","): the pieces between the commas, the empty
\* pieces included ("AE," gives "AE" and ""; "" gives one empty piece)
RECURSIVE SplitFrom(_, _, _)
SplitFrom(s, i, cur) ==
  IF i > Len(s) THEN << cur >>
  ELSE IF s[i] = "," THEN << cur >> \o SplitFrom(s, i + 1, << >>)
  ELSE SplitFrom(s, i + 1, Append(cur, s[i]))

split(s) == SplitFrom(s, 1, << >>)

\* Array.prototype.includes
includes(arr, x) == \E i \in 1..Len(arr) : arr[i] = x

(***************************************************************************)
(* JSON values.                                                            *)
(***************************************************************************)
\* null and undefined: the falsy value of the optional chains and of the
\* cache reads
Null == [t |-> "null"]

truthy(v) == v.t # "null"


(***************************************************************************)
(* The aggregator (routes.ts).                                             *)
(***************************************************************************)
PASSPORT_COUNTRY == << "S", "A" >>

\* Saudi Arabia (self), Israel
EXCLUDED == << << "S", "A" >>, << "I", "L" >> >>

\* COLOR_STATUS with a default that is not the most restrictive status
COLOR_STATUS_DefaultFree(color) ==
  CASE color = "green"  -> "visa_free"
    [] color = "blue"   -> "e_visa"
    [] color = "yellow" -> "e_visa"
    [] color = "red"    -> "visa_required"
    [] OTHER            -> "visa_free"

\* COLOR_STATUS[color] || "visa_required"; the color keys are those of a
\* provider color table, none of them a property name of Object.prototype
COLOR_STATUS(color) ==
  CASE color = "green"  -> "visa_free"
    [] color = "blue"   -> "e_visa"
    [] color = "yellow" -> "e_visa"
    [] color = "red"    -> "visa_required"
    [] OTHER            -> "visa_required"

\* countries.getName(code, lang) of the registered locale tables, on the
\* codes the model uses: a name (a one-piece text) or undefined.  Arabic
\* names are written by their transliteration.
getName(code, lang) ==
  CASE code = << "A", "E" >> ->
         IF lang = "en" THEN << "United Arab Emirates" >>
                        ELSE << "al-Imarat al-Arabiyya al-Muttahida" >>
    [] code = << "B", "H" >> ->
         IF lang = "en" THEN << "Bahrain" >> ELSE << "al-Bahrayn" >>
    [] code = << "D", "E" >> ->
         IF lang = "en" THEN << "Germany" >> ELSE << "Almanya" >>
    [] code = << "F", "R" >> ->
         IF lang = "en" THEN << "France" >> ELSE << "Faransa" >>
    [] code = << "T", "R" >> ->
         IF lang = "en" THEN << "Turkey" >> ELSE << "Turkiya" >>
    [] code = << "S", "A" >> ->
         IF lang = "en" THEN << "Saudi Arabia" >> ELSE << "as-Saudiyya" >>
    [] code = << "I", "L" >> ->
         IF lang = "en" THEN << "Israel" >> ELSE << "Israil" >>
    [] OTHER -> << >>

\* a || b on strings: the empty string and undefined are falsy
OrElse(a, b) == IF a # << >> THEN a ELSE b

\* The collation key of a.nameAr.localeCompare(b.nameAr, "ar"): Arabic
\* names in Arabic alphabetical order, after every Latin-script text (a raw
\* code, ordered by its first letter) and after the empty text.
ArCollationKey(nameAr) ==
  CASE nameAr = << >> -> 0
    [] nameAr = << "Israil" >>      -> 100
    [] nameAr = << "al-Imarat al-Arabiyya al-Muttahida" >> -> 101
    [] nameAr = << "al-Bahrayn" >>  -> 102
    [] nameAr = << "as-Saudiyya" >> -> 103
    [] nameAr = << "Almanya" >>     -> 104
    [] nameAr = << "Turkiya" >>     -> 105
    [] nameAr = << "Faransa" >>     -> 106
    [] OTHER ->
         IF \E i \in 1..26 : UpperLetters[i] = nameAr[1]
           THEN CHOOSE i \in 1..26 : UpperLetters[i] = nameAr[1]
           ELSE 27

\* Array.prototype.sort with the comparator of buildCountries: stable
RECURSIVE InsertSorted(_, _)
InsertSorted(sorted, c) ==
  IF sorted = << >> THEN << c >>
  ELSE IF ArCollationKey(sorted[Len(sorted)].nameAr) <= ArCollationKey(c.nameAr)
    THEN Append(sorted, c)
    ELSE Append(InsertSorted(SubSeq(sorted, 1, Len(sorted) - 1), c),
                sorted[Len(sorted)])

RECURSIVE SortByNameAr(_)
SortByNameAr(list) ==
  IF list = << >> THEN << >>
  ELSE InsertSorted(SortByNameAr(SubSeq(list, 1, Len(list) - 1)),
                    list[Len(list)])

\* CountryOf with the exclusion tested on the code as listed, before
\* toUpperCase()
CountryOf_CaseSensitive(color, code) ==
  LET upperCode == toUpperCase(trim(code))
      name      == OrElse(getName(upperCode, "en"), upperCode)
      nameAr    == OrElse(getName(upperCode, "ar"), name)
  IN  IF includes(EXCLUDED, trim(code)) THEN << >>
      ELSE << [ id         |-> toLowerCase(upperCode),
                name       |-> name,
                nameAr     |-> nameAr,
                flag       |-> "",
                visaStatus |-> COLOR_STATUS(color) ] >>

\* CountryOf with the id left in upper case
CountryOf_UpperId(color, code) ==
  LET upperCode == toUpperCase(trim(code))
      name      == OrElse(getName(upperCode, "en"), upperCode)
      nameAr    == OrElse(getName(upperCode, "ar"), name)
  IN  IF includes(EXCLUDED, upperCode) THEN << >>
      ELSE << [ id         |-> upperCode,
                name       |-> name,
                nameAr     |-> nameAr,
                flag       |-> "",
                visaStatus |-> COLOR_STATUS(color) ] >>

\* the body of the inner loop: one code of one color list
CountryOf(color, code) ==
  LET upperCode == toUpperCase(trim(code))
      name      == OrElse(getName(upperCode, "en"), upperCode)
      nameAr    == OrElse(getName(upperCode, "ar"), name)
  IN  IF includes(EXCLUDED, upperCode) THEN << >>
      ELSE << [ id         |-> toLowerCase(upperCode),
                name       |-> name,
                nameAr     |-> nameAr,
                flag       |-> "",
                visaStatus |-> COLOR_STATUS(color) ] >>

RECURSIVE CountriesOfCodes(_, _)
CountriesOfCodes(color, codes) ==
  IF codes = << >> THEN << >>
  ELSE CountryOf(color, Head(codes)) \o CountriesOfCodes(color, Tail(codes))

\* the outer loop over Object.entries(colors), in the order of the keys;
\* an entry is [color, codes]; an empty code list is skipped
RECURSIVE CountriesOfColors(_)
CountriesOfColors(entries) ==
  IF entries = << >> THEN << >>
  ELSE LET e == Head(entries)
       IN  (IF e.codes = << >> THEN << >>
            ELSE CountriesOfCodes(e.color, split(e.codes)))
           \o CountriesOfColors(Tail(entries))

\* buildCountries(visaMap), for a visaMap whose data.colors is a table
buildCountries(visaMap) ==
  SortByNameAr(CountriesOfColors(visaMap.data.colors.entries))


(***************************************************************************)
(* The file cache (visaCache).  A file is absent, garbled, or holds the    *)
(* JSON text of a value; JSON.parse(JSON.stringify(v)) gives v back        *)
(* for the values written here (parsed JSON and a finite number).          *)
(***************************************************************************)
\* a map cache that lives one day
TTL_MapOneDay == [ check |-> 24 * 60 * 60 * 1000, map |-> 24 * 60 * 60 * 1000 ]

\* TTL: 24h for visa checks, 7 days for map
TTL == [ check |-> 24 * 60 * 60 * 1000, map |-> 7 * 24 * 60 * 60 * 1000 ]

Absent == [t |-> "absent"]

\* a file whose text JSON.parse rejects (truncated, overwritten with noise)
Garbled == [t |-> "garbled"]

\* a cache that lives in the memory of the process
AfterRestart_MemoryOnly(file) == Absent

\* the file the next process finds in DATA_DIR: what the last one wrote
\* with fs.writeFileSync
AfterRestart(file) == file

EmptyObject == [t |-> "obj", m |-> << >>]

\* read(file): the parsed content, or null when the file does not exist
\* or JSON.parse throws
read(file) == IF file.t = "json" THEN file.v ELSE Null

\* write(file, data): the new content of the file
write(data) == [t |-> "json", v |-> data]

\* a key that keeps the letter case of its arguments
CacheKey_CaseSensitive(passport, dest) == passport \o << "-" >> \o dest

\* `${passport}-${dest}`.toUpperCase()
CacheKey(passport, dest) == toUpperCase(passport \o << "-" >> \o dest)

\* a || b on values
Or(a, b) == IF truthy(a) THEN a ELSE b

\* cache[key] of a parsed cache object
Lookup(cache, key) == IF key \in DOMAIN cache.m THEN cache.m[key] ELSE Null

\* Fresh with the expiry instant still counted as fresh
Fresh_Inclusive(entry, t, ttl) == truthy(entry) /\ t - entry.timestamp <= ttl

\* entry && Date.now() - entry.timestamp < ttl
Fresh(entry, t, ttl) == truthy(entry) /\ t - entry.timestamp < ttl

\* getCachedVisaInfo(passport, dest) on the check-cache file at time t
getCachedVisaInfo(file, passport, dest, t) ==
  LET cache == Or(read(file), EmptyObject)
      key   == CacheKey(passport, dest)
      entry == Lookup(cache, key)
  IN  IF Fresh(entry, t, TTL.check) THEN entry.data ELSE Null

\* setCachedVisaInfo that keeps the timestamp of the entry it overwrites
setCachedVisaInfo_KeepStamp(file, passport, dest, data, t) ==
  LET cache == Or(read(file), EmptyObject)
      key   == CacheKey(passport, dest)
      old   == Lookup(cache, key)
      entry == [t |-> "entry", data |-> data,
                timestamp |-> IF truthy(old) THEN old.timestamp ELSE t]
  IN  write([t |-> "obj",
             m |-> [k \in DOMAIN cache.m \cup {key} |->
                      IF k = key THEN entry ELSE cache.m[k]]])

\* setCachedVisaInfo that keeps an entry that is still fresh
setCachedVisaInfo_KeepFresh(file, passport, dest, data, t) ==
  IF Fresh(Lookup(Or(read(file), EmptyObject), CacheKey(passport, dest)),
           t, TTL.check)
    THEN file
    ELSE write([t |-> "obj",
                m |-> [k \in DOMAIN Or(read(file), EmptyObject).m
                               \cup {CacheKey(passport, dest)} |->
                         IF k = CacheKey(passport, dest)
                           THEN [t |-> "entry", data |-> data, timestamp |-> t]
                           ELSE Or(read(file), EmptyObject).m[k]]])

\* setCachedVisaInfo that leaves a file it cannot parse as it is
setCachedVisaInfo_NoRepair(file, passport, dest, data, t) ==
  IF file = Garbled THEN file
  ELSE write([t |-> "obj",
              m |-> [k \in DOMAIN Or(read(file), EmptyObject).m
                             \cup {CacheKey(passport, dest)} |->
                       IF k = CacheKey(passport, dest)
                         THEN [t |-> "entry", data |-> data, timestamp |-> t]
                         ELSE Or(read(file), EmptyObject).m[k]]])

\* setCachedVisaInfo that writes a file holding its own entry only
setCachedVisaInfo_OnlyOwn(file, passport, dest, data, t) ==
  write([t |-> "obj",
         m |-> [k \in {CacheKey(passport, dest)} |->
                  [t |-> "entry", data |-> data, timestamp |-> t]]])

\* setCachedVisaInfo(passport, dest, data) at time t: the file afterwards
setCachedVisaInfo(file, passport, dest, data, t) ==
  LET cache == Or(read(file), EmptyObject)
      key   == CacheKey(passport, dest)
      entry == [t |-> "entry", data |-> data, timestamp |-> t]
  IN  write([t |-> "obj",
             m |-> [k \in DOMAIN cache.m \cup {key} |->
                      IF k = key THEN entry ELSE cache.m[k]]])

\* getCachedVisaMap() on the map-cache file at time t
getCachedVisaMap(file, t) ==
  LET entry == read(file)
  IN  IF Fresh(entry, t, TTL.map) THEN entry.data ELSE Null

\* setCachedVisaMap(data) at time t: the file afterwards
setCachedVisaMap(data, t) ==
  write([t |-> "entry", data |-> data, timestamp |-> t])


(***************************************************************************)
(* The static store (storage.ts).                                          *)
(***************************************************************************)
MockCountry(id, name, nameAr, visaStatus) ==
  [ id |-> id, name |-> << name >>, nameAr |-> << nameAr >>,
    flag |-> "flag", visaStatus |-> visaStatus ]

mockCountries ==
  << MockCountry(<< "f", "r" >>, "France", "Faransa", "visa_required"),
     MockCountry(<< "d", "e" >>, "Germany", "Almanya", "visa_required"),
     MockCountry(<< "g", "b" >>, "United Kingdom", "al-Mamlaka al-Muttahida",
                 "visa_required"),
     MockCountry(<< "u", "s" >>, "United States", "al-Wilayat al-Muttahida",
                 "visa_required"),
     MockCountry(<< "t", "r" >>, "Turkey", "Turkiya", "e_visa"),
     MockCountry(<< "a", "e" >>, "United Arab Emirates",
                 "al-Imarat al-Arabiyya al-Muttahida", "visa_free"),
     MockCountry(<< "b", "h" >>, "Bahrain", "al-Bahrayn", "visa_free"),
     MockCountry(<< "e", "g" >>, "Egypt", "Misr", "e_visa"),
     MockCountry(<< "j", "p" >>, "Japan", "al-Yaban", "visa_required"),
     MockCountry(<< "m", "y" >>, "Malaysia", "Maliziya", "visa_free"),
     MockCountry(<< "i", "n" >>, "India", "al-Hind", "e_visa"),
     MockCountry(<< "t", "h" >>, "Thailand", "Tayland", "visa_free"),
     MockCountry(<< "e", "s" >>, "Spain", "Isbaniya", "visa_required"),
     MockCountry(<< "i", "t" >>, "Italy", "Italiya", "visa_required"),
     MockCountry(<< "i", "l" >>, "Israel", "Israil", "not_allowed") >>

\* Array.prototype.find(c => c.id === id): the first match, or undefined
find(list, id) ==
  IF \E i \in 1..Len(list) : list[i].id = id
    THEN LET i == CHOOSE i \in 1..Len(list) :
                    /\ list[i].id = id
                    /\ \A j \in 1..(i - 1) : list[j].id # id
         IN  [t |-> "country", c |-> list[i]]
    ELSE Null

\* MemStorage.getCountries
getCountries == mockCountries

\* MemStorage.getCountry
getCountry(id) == find(mockCountries, id)

(***************************************************************************)
(* Responses of the route handlers.                                        *)
(***************************************************************************)
\* res.status(status).json({ error })
ErrorResponse(status, error) ==
  [status |-> status, body |-> [t |-> "error", error |-> error]]

\* res.json(body)
JsonResponse(body) == [status |-> 200, body |-> body]

NoResponse == [status |-> 0, body |-> Null]

\* visaMap?.data?.colors
ColorsOf(visaMap) ==
  IF ~truthy(visaMap) THEN Null
  ELSE IF ~truthy(visaMap.data) THEN Null
  ELSE visaMap.data.colors

\* buildCountries(visaMap) throws: a value of the color table is truthy and
\* is not a string, so that codes.split is not a function
buildCountriesThrows(visaMap) == ColorsOf(visaMap).t = "badcolors"

\* CountriesRespond that lets an exception of buildCountries escape: no
\* response is sent
CountriesRespond_Uncaught(visaMap) ==
  IF truthy(ColorsOf(visaMap))
    THEN IF buildCountriesThrows(visaMap)
           THEN [status |-> 0, body |-> Null]
           ELSE JsonResponse([t |-> "countries",
                              list |-> buildCountries(visaMap)])
    ELSE JsonResponse([t |-> "countries", list |-> getCountries])

\* CountriesRespond without the fallback to the static list
CountriesRespond_NoFallback(visaMap) ==
  IF truthy(ColorsOf(visaMap))
    THEN JsonResponse([t |-> "countries", list |-> buildCountries(visaMap)])
    ELSE ErrorResponse(500, "Failed to fetch countries")

\* GET /api/countries, after getVisaMap has returned visaMap
CountriesRespond(visaMap) ==
  IF truthy(ColorsOf(visaMap))
    THEN IF buildCountriesThrows(visaMap)
           THEN ErrorResponse(500, "Failed to fetch countries")
           ELSE JsonResponse([t |-> "countries",
                              list |-> buildCountries(visaMap)])
    ELSE JsonResponse([t |-> "countries", list |-> getCountries])

\* GET /api/visa-map, after getVisaMap has returned visaMap
VisaMapRespond(visaMap) ==
  IF truthy(visaMap)
    THEN JsonResponse(visaMap)
    ELSE ErrorResponse(404, "Visa map not available")

\* GET /api/countries/:id, after getVisaMap has returned visaMap
CountryRespond(param, visaMap) ==
  LET id    == toLowerCase(param)
      live  == IF truthy(ColorsOf(visaMap))
                 THEN find(buildCountries(visaMap), id)
                 ELSE Null
      stored == getCountry(id)
  IN  IF truthy(ColorsOf(visaMap)) /\ buildCountriesThrows(visaMap)
        THEN ErrorResponse(500, "Failed to fetch country")
      ELSE IF truthy(live) THEN JsonResponse(live)
      ELSE IF ~truthy(stored) THEN ErrorResponse(404, "Country not found")
      ELSE JsonResponse(stored)

\* the continuation of the three handlers that await getVisaMap()
MapRouteRespond(route, param, visaMap) ==
  CASE route = "countries" -> CountriesRespond(visaMap)
    [] route = "visa-map"  -> VisaMapRespond(visaMap)
    [] OTHER               -> CountryRespond(param, visaMap)

(***************************************************************************)
(* The provider, seen from fetch(): the promise rejects (a transport       *)
(* error), or resolves to a response with a status and a body that         *)
(* response.json() parses or not.                                          *)
(***************************************************************************)
Rejected == [t |-> "reject"]

Unparseable == [t |-> "unparseable"]

Response(status, body) == [t |-> "response", status |-> status, body |-> body]

\* response.ok
ok(outcome) == outcome.status >= 200 /\ outcome.status <= 299

\* a call that gave the handler data: a response that is ok and parses
Succeeded(outcome) ==
  outcome.t = "response" /\ ok(outcome) /\ outcome.body.t # "unparseable"

(***************************************************************************)
(* getVisaMap (routes.ts).  Each operator gives the value returned, the    *)
(* file afterwards and the steps taken, in the order of the statements.    *)
(* The cache lookup has no statement that writes: its file afterwards is   *)
(* the file it was given.                                                  *)
(***************************************************************************)
\* GetVisaMapLookup that refreshes a cached map from the provider
GetVisaMapLookup_Revalidate(file, key, t) ==
  LET cached == getCachedVisaMap(file, t)
  IN  IF truthy(cached) /\ key
        THEN [file |-> file, fetch |-> TRUE, value |-> cached,
              steps |-> << "CACHE_LOOKUP", "HIT", "PROVIDER_CALL" >>]
      ELSE IF truthy(cached)
        THEN [file |-> file, fetch |-> FALSE, value |-> cached,
              steps |-> << "CACHE_LOOKUP", "HIT" >>]
      ELSE IF ~key
        THEN [file |-> file, fetch |-> FALSE, value |-> Null,
              steps |-> << "CACHE_LOOKUP", "MISS", "NO_KEY" >>]
      ELSE [file |-> file, fetch |-> TRUE, value |-> Null,
            steps |-> << "CACHE_LOOKUP", "MISS", "PROVIDER_CALL" >>]

\* GetVisaMapLookup that deletes a map file whose entry has expired
GetVisaMapLookup_PurgeExpired(file, key, t) ==
  LET cached == getCachedVisaMap(file, t)
  IN  IF truthy(cached)
        THEN [file |-> file, fetch |-> FALSE, value |-> cached,
              steps |-> << "CACHE_LOOKUP", "HIT" >>]
      ELSE IF ~key
        THEN [file |-> Absent, fetch |-> FALSE, value |-> Null,
              steps |-> << "CACHE_LOOKUP", "MISS", "NO_KEY" >>]
      ELSE [file |-> Absent, fetch |-> TRUE, value |-> Null,
            steps |-> << "CACHE_LOOKUP", "MISS", "PROVIDER_CALL" >>]

\* up to the await of fetch(): fetch is TRUE when the call is issued
GetVisaMapLookup(file, key, t) ==
  LET cached == getCachedVisaMap(file, t)
  IN  IF truthy(cached)
        THEN [file |-> file, fetch |-> FALSE, value |-> cached,
              steps |-> << "CACHE_LOOKUP", "HIT" >>]
      ELSE IF ~key
        THEN [file |-> file, fetch |-> FALSE, value |-> Null,
              steps |-> << "CACHE_LOOKUP", "MISS", "NO_KEY" >>]
      ELSE [file |-> file, fetch |-> TRUE, value |-> Null,
            steps |-> << "CACHE_LOOKUP", "MISS", "PROVIDER_CALL" >>]

\* from the settling of fetch() on
GetVisaMapSettle(file, outcome, t) ==
  IF outcome.t = "reject"
    THEN [file |-> file, value |-> Null, steps |-> << "FAILURE" >>]
  ELSE IF ~ok(outcome)
    THEN [file |-> file, value |-> Null, steps |-> << "FAILURE" >>]
  ELSE IF outcome.body.t = "unparseable"
    THEN [file |-> file, value |-> Null, steps |-> << "FAILURE" >>]
  ELSE [file |-> setCachedVisaMap(outcome.body, t), value |-> outcome.body,
        steps |-> << "SUCCESS", "CACHE_WRITE" >>]

(***************************************************************************)
(* GET /api/visa-info/:destinationCode (routes.ts).                        *)
(***************************************************************************)
\* VisaInfoLookup that calls the provider without testing RAPIDAPI_KEY
VisaInfoLookup_NoKeyCheck(file, key, param, t) ==
  LET dest   == toUpperCase(param)
      cached == getCachedVisaInfo(file, PASSPORT_COUNTRY, dest, t)
  IN  IF truthy(cached)
        THEN [file |-> file, fetch |-> FALSE, resp |-> JsonResponse(cached),
              steps |-> << "CACHE_LOOKUP", "HIT", "RESPOND" >>]
      ELSE [file |-> file, fetch |-> TRUE, resp |-> NoResponse,
            steps |-> << "CACHE_LOOKUP", "MISS", "PROVIDER_CALL" >>]

\* VisaInfoLookup that tests RAPIDAPI_KEY before it looks into the cache
VisaInfoLookup_KeyFirst(file, key, param, t) ==
  LET dest   == toUpperCase(param)
      cached == getCachedVisaInfo(file, PASSPORT_COUNTRY, dest, t)
  IN  IF ~key
        THEN [file |-> file, fetch |-> FALSE,
              resp |-> ErrorResponse(500, "API key not configured"),
              steps |-> << "NO_KEY", "RESPOND_WITH_ERROR" >>]
      ELSE IF truthy(cached)
        THEN [file |-> file, fetch |-> FALSE, resp |-> JsonResponse(cached),
              steps |-> << "CACHE_LOOKUP", "HIT", "RESPOND" >>]
      ELSE [file |-> file, fetch |-> TRUE, resp |-> NoResponse,
            steps |-> << "CACHE_LOOKUP", "MISS", "PROVIDER_CALL" >>]

\* up to the response or to the await of fetch()
VisaInfoLookup(file, key, param, t) ==
  LET dest   == toUpperCase(param)
      cached == getCachedVisaInfo(file, PASSPORT_COUNTRY, dest, t)
  IN  IF truthy(cached)
        THEN [file |-> file, fetch |-> FALSE, resp |-> JsonResponse(cached),
              steps |-> << "CACHE_LOOKUP", "HIT", "RESPOND" >>]
      ELSE IF ~key
        THEN [file |-> file, fetch |-> FALSE,
              resp |-> ErrorResponse(500, "API key not configured"),
              steps |-> << "CACHE_LOOKUP", "MISS", "NO_KEY",
                           "RESPOND_WITH_ERROR" >>]
      ELSE [file |-> file, fetch |-> TRUE, resp |-> NoResponse,
            steps |-> << "CACHE_LOOKUP", "MISS", "PROVIDER_CALL" >>]

\* VisaInfoSettle that stores the parsed body before it tests response.ok
VisaInfoSettle_StoreFirst(file, param, outcome, t) ==
  LET dest == toUpperCase(param)
  IN  IF outcome.t = "reject"
        THEN [file |-> file,
              resp |-> ErrorResponse(500, "Failed to fetch visa information"),
              steps |-> << "FAILURE", "RESPOND_WITH_ERROR" >>]
      ELSE IF outcome.body.t = "unparseable"
        THEN [file |-> file,
              resp |-> ErrorResponse(500, "Failed to fetch visa information"),
              steps |-> << "FAILURE", "RESPOND_WITH_ERROR" >>]
      ELSE IF ~ok(outcome)
        THEN [file |-> setCachedVisaInfo(file, PASSPORT_COUNTRY, dest,
                                         outcome.body, t),
              resp |-> ErrorResponse(outcome.status,
                                     "Failed to fetch visa info"),
              steps |-> << "FAILURE", "RESPOND_WITH_ERROR" >>]
      ELSE [file |-> setCachedVisaInfo(file, PASSPORT_COUNTRY, dest,
                                       outcome.body, t),
            resp |-> JsonResponse(outcome.body),
            steps |-> << "SUCCESS", "CACHE_WRITE", "RESPOND" >>]

\* VisaInfoSettle that reports a conflict when the entry it is about to
\* write has been written by another request in the meantime
VisaInfoSettle_ReportOverwrite(file, param, outcome, t) ==
  LET dest == toUpperCase(param)
  IN  IF outcome.t = "reject"
        THEN [file |-> file,
              resp |-> ErrorResponse(500, "Failed to fetch visa information"),
              steps |-> << "FAILURE", "RESPOND_WITH_ERROR" >>]
      ELSE IF ~ok(outcome)
        THEN [file |-> file,
              resp |-> ErrorResponse(outcome.status,
                                     "Failed to fetch visa info"),
              steps |-> << "FAILURE", "RESPOND_WITH_ERROR" >>]
      ELSE IF outcome.body.t = "unparseable"
        THEN [file |-> file,
              resp |-> ErrorResponse(500, "Failed to fetch visa information"),
              steps |-> << "FAILURE", "RESPOND_WITH_ERROR" >>]
      ELSE IF truthy(getCachedVisaInfo(file, PASSPORT_COUNTRY, dest, t))
        THEN [file |-> setCachedVisaInfo(file, PASSPORT_COUNTRY, dest,
                                         outcome.body, t),
              resp |-> ErrorResponse(409, "Entry overwritten"),
              steps |-> << "SUCCESS", "CACHE_WRITE", "RESPOND_WITH_ERROR" >>]
      ELSE [file |-> setCachedVisaInfo(file, PASSPORT_COUNTRY, dest,
                                       outcome.body, t),
            resp |-> JsonResponse(outcome.body),
            steps |-> << "SUCCESS", "CACHE_WRITE", "RESPOND" >>]

\* from the settling of fetch() on
VisaInfoSettle(file, param, outcome, t) ==
  LET dest == toUpperCase(param)
  IN  IF outcome.t = "reject"
        THEN [file |-> file,
              resp |-> ErrorResponse(500, "Failed to fetch visa information"),
              steps |-> << "FAILURE", "RESPOND_WITH_ERROR" >>]
      ELSE IF ~ok(outcome)
        THEN [file |-> file,
              resp |-> ErrorResponse(outcome.status,
                                     "Failed to fetch visa info"),
              steps |-> << "FAILURE", "RESPOND_WITH_ERROR" >>]
      ELSE IF outcome.body.t = "unparseable"
        THEN [file |-> file,
              resp |-> ErrorResponse(500, "Failed to fetch visa information"),
              steps |-> << "FAILURE", "RESPOND_WITH_ERROR" >>]
      ELSE [file |-> setCachedVisaInfo(file, PASSPORT_COUNTRY, dest,
                                       outcome.body, t),
            resp |-> JsonResponse(outcome.body),
            steps |-> << "SUCCESS", "CACHE_WRITE", "RESPOND" >>]


(***************************************************************************)
(* The world map of the client (CountryCard.tsx): the code tables and the  *)
(* resolution of a geography of the map feed to its country codes.         *)
(***************************************************************************)
\* an entry [key, value] of an object literal
A2(a, b, x, y, z) == << << a, b >>, << x, y, z >> >>

N1(a, x, y, z) == << << a >>, << x, y, z >> >>

N2(a, b, x, y, z) == << << a, b >>, << x, y, z >> >>

N3(a, b, c, x, y, z) == << << a, b, c >>, << x, y, z >> >>

\* the object of an object literal or of Object.fromEntries: a key written
\* more than once keeps its last value
ObjectOf(entries) ==
  [k \in { entries[i][1] : i \in 1..Len(entries) } |->
     entries[CHOOSE i \in 1..Len(entries) :
               /\ entries[i][1] = k
               /\ \A j \in (i + 1)..Len(entries) : entries[j][1] # k][2]]

\* obj[key]: undefined, which is falsy like the empty string, when absent
Get(obj, key) == IF key \in DOMAIN obj THEN obj[key] ELSE << >>

\* an alpha-2 to alpha-3 literal in which UK is listed beside GB
ISO2_TO_ISO3_WithAlias ==
  << A2("F","R", "F","R","A"), A2("G","B", "G","B","R"),
     A2("U","K", "G","B","R") >>

ISO2_TO_ISO3_Literal ==
  << A2("A","F", "A","F","G"), A2("A","L", "A","L","B"),
     A2("D","Z", "D","Z","A"), A2("A","D", "A","N","D"),
     A2("A","O", "A","G","O"), A2("A","G", "A","T","G"),
     A2("A","R", "A","R","G"), A2("A","M", "A","R","M"),
     A2("A","U", "A","U","S"), A2("A","T", "A","U","T"),
     A2("A","Z", "A","Z","E"), A2("B","S", "B","H","S"),
     A2("B","H", "B","H","R"), A2("B","D", "B","G","D"),
     A2("B","B", "B","R","B"), A2("B","Y", "B","L","R"),
     A2("B","E", "B","E","L"), A2("B","Z", "B","L","Z"),
     A2("B","J", "B","E","N"), A2("B","T", "B","T","N"),
     A2("B","O", "B","O","L"), A2("B","A", "B","I","H"),
     A2("B","W", "B","W","A"), A2("B","R", "B","R","A"),
     A2("B","N", "B","R","N"), A2("B","G", "B","G","R"),
     A2("B","F", "B","F","A"), A2("B","I", "B","D","I"),
     A2("K","H", "K","H","M"), A2("C","M", "C","M","R"),
     A2("C","A", "C","A","N"), A2("C","V", "C","P","V"),
     A2("C","F", "C","A","F"), A2("T","D", "T","C","D"),
     A2("C","L", "C","H","L"), A2("C","N", "C","H","N"),
     A2("C","O", "C","O","L"), A2("K","M", "C","O","M"),
     A2("C","G", "C","O","G"), A2("C","D", "C","O","D"),
     A2("C","R", "C","R","I"), A2("C","I", "C","I","V"),
     A2("H","R", "H","R","V"), A2("C","U", "C","U","B"),
     A2("C","Y", "C","Y","P"), A2("C","Z", "C","Z","E"),
     A2("D","K", "D","N","K"), A2("D","J", "D","J","I"),
     A2("D","M", "D","M","A"), A2("D","O", "D","O","M"),
     A2("E","C", "E","C","U"), A2("E","G", "E","G","Y"),
     A2("S","V", "S","L","V"), A2("G","Q", "G","N","Q"),
     A2("E","R", "E","R","I"), A2("E","E", "E","S","T"),
     A2("E","T", "E","T","H"), A2("F","J", "F","J","I"),
     A2("F","I", "F","I","N"), A2("F","R", "F","R","A"),
     A2("G","A", "G","A","B"), A2("G","M", "G","M","B"),
     A2("G","E", "G","E","O"), A2("D","E", "D","E","U"),
     A2("G","H", "G","H","A"), A2("G","R", "G","R","C"),
     A2("G","D", "G","R","D"), A2("G","T", "G","T","M"),
     A2("G","N", "G","I","N"), A2("G","W", "G","N","B"),
     A2("G","Y", "G","U","Y"), A2("H","T", "H","T","I"),
     A2("H","N", "H","N","D"), A2("H","U", "H","U","N"),
     A2("I","S", "I","S","L"), A2("I","N", "I","N","D"),
     A2("I","D", "I","D","N"), A2("I","R", "I","R","N"),
     A2("I","Q", "I","R","Q"), A2("I","E", "I","R","L"),
     A2("I","L", "I","S","R"), A2("I","T", "I","T","A"),
     A2("J","M", "J","A","M"), A2("J","P", "J","P","N"),
     A2("J","O", "J","O","R"), A2("K","Z", "K","A","Z"),
     A2("K","E", "K","E","N"), A2("K","I", "K","I","R"),
     A2("K","P", "P","R","K"), A2("K","R", "K","O","R"),
     A2("K","W", "K","W","T"), A2("K","G", "K","G","Z"),
     A2("L","A", "L","A","O"), A2("L","V", "L","V","A"),
     A2("L","B", "L","B","N"), A2("L","S", "L","S","O"),
     A2("L","R", "L","B","R"), A2("L","Y", "L","B","Y"),
     A2("L","I", "L","I","E"), A2("L","T", "L","T","U"),
     A2("L","U", "L","U","X"), A2("M","K", "M","K","D"),
     A2("M","G", "M","D","G"), A2("M","W", "M","W","I"),
     A2("M","Y", "M","Y","S"), A2("M","V", "M","D","V"),
     A2("M","L", "M","L","I"), A2("M","T", "M","L","T"),
     A2("M","H", "M","H","L"), A2("M","R", "M","R","T"),
     A2("M","U", "M","U","S"), A2("M","X", "M","E","X"),
     A2("F","M", "F","S","M"), A2("M","D", "M","D","A"),
     A2("M","C", "M","C","O"), A2("M","N", "M","N","G"),
     A2("M","E", "M","N","E"), A2("M","A", "M","A","R"),
     A2("M","Z", "M","O","Z"), A2("M","M", "M","M","R"),
     A2("N","A", "N","A","M"), A2("N","R", "N","R","U"),
     A2("N","P", "N","P","L"), A2("N","L", "N","L","D"),
     A2("N","Z", "N","Z","L"), A2("N","I", "N","I","C"),
     A2("N","E", "N","E","R"), A2("N","G", "N","G","A"),
     A2("N","O", "N","O","R"), A2("O","M", "O","M","N"),
     A2("P","K", "P","A","K"), A2("P","W", "P","L","W"),
     A2("P","A", "P","A","N"), A2("P","G", "P","N","G"),
     A2("P","Y", "P","R","Y"), A2("P","E", "P","E","R"),
     A2("P","H", "P","H","L"), A2("P","L", "P","O","L"),
     A2("P","T", "P","R","T"), A2("Q","A", "Q","A","T"),
     A2("R","O", "R","O","U"), A2("R","U", "R","U","S"),
     A2("R","W", "R","W","A"), A2("K","N", "K","N","A"),
     A2("L","C", "L","C","A"), A2("V","C", "V","C","T"),
     A2("W","S", "W","S","M"), A2("S","M", "S","M","R"),
     A2("S","T", "S","T","P"), A2("S","A", "S","A","U"),
     A2("S","N", "S","E","N"), A2("R","S", "S","R","B"),
     A2("S","C", "S","Y","C"), A2("S","L", "S","L","E"),
     A2("S","G", "S","G","P"), A2("S","K", "S","V","K"),
     A2("S","I", "S","V","N"), A2("S","B", "S","L","B"),
     A2("S","O", "S","O","M"), A2("Z","A", "Z","A","F"),
     A2("S","S", "S","S","D"), A2("E","S", "E","S","P"),
     A2("L","K", "L","K","A"), A2("S","D", "S","D","N"),
     A2("S","R", "S","U","R"), A2("S","Z", "S","W","Z"),
     A2("S","E", "S","W","E"), A2("C","H", "C","H","E"),
     A2("S","Y", "S","Y","R"), A2("T","W", "T","W","N"),
     A2("T","J", "T","J","K"), A2("T","Z", "T","Z","A"),
     A2("T","H", "T","H","A"), A2("T","L", "T","L","S"),
     A2("T","G", "T","G","O"), A2("T","O", "T","O","N"),
     A2("T","T", "T","T","O"), A2("T","N", "T","U","N"),
     A2("T","R", "T","U","R"), A2("T","M", "T","K","M"),
     A2("T","V", "T","U","V"), A2("U","G", "U","G","A"),
     A2("U","A", "U","K","R"), A2("A","E", "A","R","E"),
     A2("G","B", "G","B","R"), A2("U","S", "U","S","A"),
     A2("U","Y", "U","R","Y"), A2("U","Z", "U","Z","B"),
     A2("V","U", "V","U","T"), A2("V","A", "V","A","T"),
     A2("V","E", "V","E","N"), A2("V","N", "V","N","M"),
     A2("Y","E", "Y","E","M"), A2("Z","M", "Z","M","B"),
     A2("Z","W", "Z","W","E"), A2("X","K", "X","K","X"),
     A2("P","S", "P","S","E"), A2("H","K", "H","K","G"),
     A2("M","O", "M","A","C") >>

ISO2_TO_ISO3 == ObjectOf(ISO2_TO_ISO3_Literal)

\* Object.fromEntries(Object.entries(ISO2_TO_ISO3).map(([iso2, iso3]) =>
\* [iso3, iso2])); Object.entries gives the keys, none of them written
\* twice, in the order of the literal
ISO3_TO_ISO2 ==
  ObjectOf([i \in 1..Len(ISO2_TO_ISO3_Literal) |->
              << ISO2_TO_ISO3_Literal[i][2], ISO2_TO_ISO3_Literal[i][1] >>])

RAW_NUMERIC_TO_ISO3_Literal ==
  << N1("4", "A","F","G"), N1("8", "A","L","B"),
     N2("1","2", "D","Z","A"), N2("2","0", "A","N","D"),
     N2("2","4", "A","G","O"), N2("2","8", "A","T","G"),
     N2("3","2", "A","R","G"), N2("5","1", "A","R","M"),
     N2("3","6", "A","U","S"), N2("4","0", "A","U","T"),
     N2("3","1", "A","Z","E"), N2("4","4", "B","H","S"),
     N2("4","8", "B","H","R"), N2("5","0", "B","G","D"),
     N2("5","2", "B","R","B"), N3("1","1","2", "B","L","R"),
     N2("5","6", "B","E","L"), N2("8","4", "B","L","Z"),
     N3("2","0","4", "B","E","N"), N2("6","4", "B","T","N"),
     N2("6","8", "B","O","L"), N2("7","0", "B","I","H"),
     N2("7","2", "B","W","A"), N2("7","6", "B","R","A"),
     N2("9","6", "B","R","N"), N3("1","0","0", "B","G","R"),
     N3("8","5","4", "B","F","A"), N3("1","0","8", "B","D","I"),
     N3("1","1","6", "K","H","M"), N3("1","2","0", "C","M","R"),
     N3("1","2","4", "C","A","N"), N3("1","3","2", "C","P","V"),
     N3("1","4","0", "C","A","F"), N3("1","4","8", "T","C","D"),
     N3("1","5","2", "C","H","L"), N3("1","5","6", "C","H","N"),
     N3("1","7","0", "C","O","L"), N3("1","7","4", "C","O","M"),
     N3("1","7","8", "C","O","G"), N3("1","8","0", "C","O","D"),
     N3("1","8","8", "C","R","I"), N3("3","8","4", "C","I","V"),
     N3("1","9","1", "H","R","V"), N3("1","9","2", "C","U","B"),
     N3("1","9","6", "C","Y","P"), N3("2","0","3", "C","Z","E"),
     N3("2","0","8", "D","N","K"), N3("2","6","2", "D","J","I"),
     N3("2","1","2", "D","M","A"), N3("2","1","4", "D","O","M"),
     N3("2","1","8", "E","C","U"), N3("8","1","8", "E","G","Y"),
     N3("2","2","2", "S","L","V"), N3("2","2","6", "G","N","Q"),
     N3("2","3","2", "E","R","I"), N3("2","3","3", "E","S","T"),
     N3("2","3","1", "E","T","H"), N3("2","4","2", "F","J","I"),
     N3("2","4","6", "F","I","N"), N3("2","5","0", "F","R","A"),
     N3("2","6","6", "G","A","B"), N3("2","7","0", "G","M","B"),
     N3("2","6","8", "G","E","O"), N3("2","7","6", "D","E","U"),
     N3("2","8","8", "G","H","A"), N3("3","0","0", "G","R","C"),
     N3("3","0","8", "G","R","D"), N3("3","2","0", "G","T","M"),
     N3("3","2","4", "G","I","N"), N3("6","2","4", "G","N","B"),
     N3("3","2","8", "G","U","Y"), N3("3","3","2", "H","T","I"),
     N3("3","4","0", "H","N","D"), N3("3","4","8", "H","U","N"),
     N3("3","5","2", "I","S","L"), N3("3","5","6", "I","N","D"),
     N3("3","6","0", "I","D","N"), N3("3","6","4", "I","R","N"),
     N3("3","6","8", "I","R","Q"), N3("3","7","2", "I","R","L"),
     N3("3","7","6", "I","S","R"), N3("3","8","0", "I","T","A"),
     N3("3","8","8", "J","A","M"), N3("3","9","2", "J","P","N"),
     N3("4","0","0", "J","O","R"), N3("3","9","8", "K","A","Z"),
     N3("4","0","4", "K","E","N"), N3("2","9","6", "K","I","R"),
     N3("4","0","8", "P","R","K"), N3("4","1","0", "K","O","R"),
     N3("4","1","4", "K","W","T"), N3("4","1","7", "K","G","Z"),
     N3("4","1","8", "L","A","O"), N3("4","2","8", "L","V","A"),
     N3("4","2","2", "L","B","N"), N3("4","2","6", "L","S","O"),
     N3("4","3","0", "L","B","R"), N3("4","3","4", "L","B","Y"),
     N3("4","3","8", "L","I","E"), N3("4","4","0", "L","T","U"),
     N3("4","4","2", "L","U","X"), N3("8","0","7", "M","K","D"),
     N3("4","5","0", "M","D","G"), N3("4","5","4", "M","W","I"),
     N3("4","5","8", "M","Y","S"), N3("4","6","2", "M","D","V"),
     N3("4","6","6", "M","L","I"), N3("4","7","0", "M","L","T"),
     N3("5","8","4", "M","H","L"), N3("4","7","8", "M","R","T"),
     N3("4","8","0", "M","U","S"), N3("4","8","4", "M","E","X"),
     N3("5","8","3", "F","S","M"), N3("4","9","8", "M","D","A"),
     N3("4","9","2", "M","C","O"), N3("4","9","6", "M","N","G"),
     N3("4","9","9", "M","N","E"), N3("5","0","4", "M","A","R"),
     N3("5","0","8", "M","O","Z"), N3("1","0","4", "M","M","R"),
     N3("5","1","6", "N","A","M"), N3("5","2","0", "N","R","U"),
     N3("5","2","4", "N","P","L"), N3("5","2","8", "N","L","D"),
     N3("5","5","4", "N","Z","L"), N3("5","5","8", "N","I","C"),
     N3("5","6","2", "N","E","R"), N3("5","6","6", "N","G","A"),
     N3("5","7","8", "N","O","R"), N3("5","1","2", "O","M","N"),
     N3("5","8","6", "P","A","K"), N3("5","8","5", "P","L","W"),
     N3("5","9","1", "P","A","N"), N3("5","9","8", "P","N","G"),
     N3("6","0","0", "P","R","Y"), N3("6","0","4", "P","E","R"),
     N3("6","0","8", "P","H","L"), N3("6","1","6", "P","O","L"),
     N3("6","2","0", "P","R","T"), N3("6","3","4", "Q","A","T"),
     N3("6","4","2", "R","O","U"), N3("6","4","3", "R","U","S"),
     N3("6","4","6", "R","W","A"), N3("6","5","9", "K","N","A"),
     N3("6","6","2", "L","C","A"), N3("6","7","0", "V","C","T"),
     N3("8","8","2", "W","S","M"), N3("6","7","4", "S","M","R"),
     N3("6","7","8", "S","T","P"), N3("6","8","2", "S","A","U"),
     N3("6","8","6", "S","E","N"), N3("6","8","8", "S","R","B"),
     N3("6","9","0", "S","Y","C"), N3("6","9","4", "S","L","E"),
     N3("7","0","2", "S","G","P"), N3("7","0","3", "S","V","K"),
     N3("7","0","5", "S","V","N"), N2("9","0", "S","L","B"),
     N3("7","0","6", "S","O","M"), N3("7","1","0", "Z","A","F"),
     N3("7","2","8", "S","S","D"), N3("7","2","4", "E","S","P"),
     N3("1","4","4", "L","K","A"), N3("7","3","6", "S","D","N"),
     N3("7","4","0", "S","U","R"), N3("7","4","8", "S","W","Z"),
     N3("7","5","2", "S","W","E"), N3("7","5","6", "C","H","E"),
     N3("7","6","0", "S","Y","R"), N3("1","5","8", "T","W","N"),
     N3("7","6","2", "T","J","K"), N3("8","3","4", "T","Z","A"),
     N3("7","6","4", "T","H","A"), N3("6","2","6", "T","L","S"),
     N3("7","6","8", "T","G","O"), N3("7","7","6", "T","O","N"),
     N3("7","8","0", "T","T","O"), N3("7","8","8", "T","U","N"),
     N3("7","9","2", "T","U","R"), N3("7","9","5", "T","K","M"),
     N3("7","9","8", "T","U","V"), N3("8","0","0", "U","G","A"),
     N3("8","0","4", "U","K","R"), N3("7","8","4", "A","R","E"),
     N3("8","2","6", "G","B","R"), N3("8","4","0", "U","S","A"),
     N3("8","5","8", "U","R","Y"), N3("8","6","0", "U","Z","B"),
     N3("5","4","8", "V","U","T"), N3("3","3","6", "V","A","T"),
     N3("8","6","2", "V","E","N"), N3("7","0","4", "V","N","M"),
     N3("8","8","7", "Y","E","M"), N3("8","9","4", "Z","M","B"),
     N3("7","1","6", "Z","W","E"), N3("2","7","5", "P","S","E"),
     N3("3","4","4", "H","K","G"), N3("4","4","6", "M","A","C") >>

\* String.prototype.padStart(targetLength, padString) with a padString of
\* one character
RECURSIVE padStart(_, _, _)
padStart(s, targetLength, padString) ==
  IF Len(s) >= targetLength THEN s
  ELSE padStart(<< padString >> \o s, targetLength, padString)

\* Object.fromEntries(Object.entries(RAW_NUMERIC_TO_ISO3).map(([num, iso3])
\* => [num.padStart(3, "0"), iso3])); no two keys of the literal pad to the
\* same key, so the order of Object.entries plays no part
NUMERIC_TO_ISO3 ==
  ObjectOf([i \in 1..Len(RAW_NUMERIC_TO_ISO3_Literal) |->
              << padStart(RAW_NUMERIC_TO_ISO3_Literal[i][1], 3, "0"),
                 RAW_NUMERIC_TO_ISO3_Literal[i][2] >>])

\* a geography of the feed: String(geo.id) and geo.properties?.ISO_A3
\* (empty when the feed gives none)
Geography(id, isoA3) == [id |-> id, ISO_A3 |-> isoA3]

\* ResolveGeo that prefers the ISO_A3 property of the feed
ResolveGeo_PropertyFirst(g) ==
  LET numericId == g.id
      iso3      == OrElse(OrElse(g.ISO_A3, Get(NUMERIC_TO_ISO3, numericId)),
                          numericId)
      iso2      == Get(ISO3_TO_ISO2, iso3)
  IN  [iso3 |-> iso3, iso2 |-> iso2]

\* the head of the callback of geographies.map: the codes of a geography
ResolveGeo(g) ==
  LET numericId == g.id
      iso3      == OrElse(OrElse(Get(NUMERIC_TO_ISO3, numericId), g.ISO_A3),
                          numericId)
      iso2      == Get(ISO3_TO_ISO2, iso3)
  IN  [iso3 |-> iso3, iso2 |-> iso2]

SAU == << "S", "A", "U" >>

STATUS_COLORS ==
  [ green   |-> "#4caf50",
    blue    |-> "#2196f3",
    yellow  |-> "#ffc107",
    red     |-> "#f44336",
    default |-> "#e0e0e0",
    saudi   |-> "#00ab67" ]

HOVER_COLORS ==
  [ green   |-> "#66bb6a",
    blue    |-> "#42a5f5",
    yellow  |-> "#ffca28",
    red     |-> "#ef5350",
    default |-> "#bdbdbd",
    saudi   |-> "#00ab67" ]

\* table[key] || table.default; the keys are color names of a provider
\* table, none of them a property name of Object.prototype
ColorOf(table, key) ==
  IF key \in DOMAIN table THEN table[key] ELSE table.default

\* map[key] = value
Put(map, key, value) ==
  [k \in DOMAIN map \cup {key} |-> IF k = key THEN value ELSE map[k]]

\* map[iso3]: undefined, written "", when the map has no such key
ColorKeyOf(map, iso3) == IF iso3 \in DOMAIN map THEN map[iso3] ELSE ""

\* the inner loop of countryColorMap over codes.split(","): a code that
\* ISO2_TO_ISO3 does not hold leaves the map as it is
RECURSIVE ColorCodes(_, _, _)
ColorCodes(map, color, codes) ==
  IF codes = << >> THEN map
  ELSE LET trimmedCode == toUpperCase(trim(Head(codes)))
           iso3        == Get(ISO2_TO_ISO3, trimmedCode)
       IN  ColorCodes(IF iso3 # << >> THEN Put(map, iso3, color) ELSE map,
                      color, Tail(codes))

\* the outer loop over Object.entries(visaColors); an entry whose codes are
\* empty is skipped
RECURSIVE ColorEntries(_, _)
ColorEntries(map, entries) ==
  IF entries = << >> THEN map
  ELSE LET e == Head(entries)
       IN  ColorEntries(IF e.codes = << >>
                          THEN map
                          ELSE ColorCodes(map, e.color, split(e.codes)),
                        Tail(entries))

\* countryColorMap that stops at a code it does not know
countryColorMap_StopAtUnknown(visaColors) ==
  IF ~truthy(visaColors) \/ visaColors.t = "text"
    THEN << >>
  ELSE IF visaColors.t = "badcolors"
       \/ \E i \in 1..Len(visaColors.entries) :
            \E j \in 1..Len(split(visaColors.entries[i].codes)) :
              /\ visaColors.entries[i].codes # << >>
              /\ Get(ISO2_TO_ISO3,
                     toUpperCase(trim(split(visaColors.entries[i].codes)[j])))
                   = << >>
    THEN Put(<< >>, SAU, "saudi")
  ELSE Put(ColorEntries(<< >>, visaColors.entries), SAU, "saudi")

\* the memo countryColorMap of a visaColors prop: alpha-3 code to color
\* key.  A prop that is null or not an object gives the empty map; a value
\* of the table that is not a string is skipped.
countryColorMap(visaColors) ==
  IF ~truthy(visaColors) \/ visaColors.t = "text"
    THEN << >>
  ELSE IF visaColors.t = "badcolors"
    THEN Put(<< >>, SAU, "saudi")
  ELSE Put(ColorEntries(<< >>, visaColors.entries), SAU, "saudi")

\* getCountryColor(iso3) under the filter selected
getCountryColor(map, filter, iso3) ==
  LET colorKey == ColorKeyOf(map, iso3)
  IN  IF colorKey = "" THEN STATUS_COLORS.default
      ELSE IF colorKey = "saudi" THEN STATUS_COLORS.saudi
      ELSE IF filter # "all" /\ colorKey # filter THEN "#f0f0f0"
      ELSE ColorOf(STATUS_COLORS, colorKey)

\* the callback of geographies.map: the codes and the style of a geography
Draw(g, visaColors, filter) ==
  LET map        == countryColorMap(visaColors)
      codes      == ResolveGeo(g)
      known      == ColorKeyOf(map, codes.iso3)
      colorKey   == IF known = "" THEN "default" ELSE known
      color      == getCountryColor(map, filter, codes.iso3)
      hoverColor == ColorOf(HOVER_COLORS, colorKey)
      isSaudi    == codes.iso3 = SAU
      isExcluded == codes.iso2 = << "I", "L" >>
  IN  [ iso3     |-> codes.iso3,
        iso2     |-> codes.iso2,
        colorKey |-> colorKey,
        fill     |-> color,
        hover    |-> IF isSaudi THEN STATUS_COLORS.saudi
                     ELSE IF isExcluded THEN color
                     ELSE hoverColor,
        cursor   |-> IF isSaudi \/ isExcluded THEN "default" ELSE "pointer" ]

\* onClick that tests only that the geography has an alpha-2 code
OnClick_NoExclusion(drawn) ==
  IF drawn.iso2 # << >> THEN << toLowerCase(drawn.iso2) >> ELSE << >>

\* onClick of a geography: the arguments onCountryClick is called with
OnClick(drawn) ==
  LET isSaudi    == drawn.iso3 = SAU
      isExcluded == drawn.iso2 = << "I", "L" >>
  IN  IF drawn.iso2 # << >> /\ ~isSaudi /\ ~isExcluded
        THEN << toLowerCase(drawn.iso2) >>
        ELSE << >>

(***************************************************************************)
(* Inputs: request parameters, provider answers, clock advances,           *)
(* geographies of the map feed.                                            *)
(***************************************************************************)
\* :destinationCode of GET /api/visa-info
Dests == { << "F", "R" >>, << "f", "r" >>, << "D", "E" >> }

\* one destination, one spelling
OneDest == { << "F", "R" >> }

\* two destinations, two entries of the check cache
TwoDests == { << "F", "R" >>, << "D", "E" >> }

\* the passport argument of the check cache in two letter cases
PassportSpellings == { << "S", "A" >>, << "s", "a" >> }

\* one destination in two letter cases
SameDest == { << "F", "R" >>, << "f", "r" >> }

\* :id of GET /api/countries/:id
CountryIds == { << "A", "E" >>, << "i", "l" >>, << "z", "z" >> }

\* bodies of the check endpoint (VisaApiResponse objects)
InfoPayloads == { [t |-> "info", rule |-> "visa required"],
                  [t |-> "info", rule |-> "visa on arrival"] }

\* one body of the check endpoint
OneInfoPayload == { [t |-> "info", rule |-> "visa required"] }

ColorTable(entries) == [t |-> "colors", entries |-> entries]

MapBody(colors) ==
  [t |-> "map", data |-> [t |-> "data", colors |-> colors]]

\* { colors: { green: "AE,BH", red: "FR" } }
MapScenario ==
  MapBody(ColorTable(
    << [color |-> "green", codes |-> << "A", "E", ",", "B", "H" >>],
       [color |-> "red",   codes |-> << "F", "R" >>] >>))

\* { colors: { green: " sa ,il,Tr", purple: "de", yellow: "XX", blue: "" } }
MapMixed ==
  MapBody(ColorTable(
    << [color |-> "green",
        codes |-> << " ", "s", "a", " ", ",", "i", "l", ",", "T", "r" >>],
       [color |-> "purple", codes |-> << "d", "e" >>],
       [color |-> "yellow", codes |-> << "X", "X" >>],
       [color |-> "blue",   codes |-> << >>] >>))

\* { colors: { red: "SA,IL" } }
MapOnlyExcluded ==
  MapBody(ColorTable(
    << [color |-> "red", codes |-> << "S", "A", ",", "I", "L" >>] >>))

\* { colors: {} }
MapEmptyColors == MapBody(ColorTable(<< >>))

\* { data: {} }
MapNoColors == MapBody(Null)

\* {}
MapNoData == [t |-> "map", data |-> Null]

\* { colors: { green: 5 } }
MapBadCodes == MapBody([t |-> "badcolors"])

\* bodies of the map endpoint
MapPayloads ==
  { MapScenario, MapMixed, MapOnlyExcluded, MapEmptyColors, MapNoColors,
    MapNoData }

\* the bodies of the map endpoint used where both caches are exercised
FewMapPayloads == { MapScenario, MapNoColors }

\* ... and a body whose color table is not one of strings
FaultyMapPayloads == FewMapPayloads \cup { MapBadCodes }

\* statuses of responses that are not ok
FailStatuses == { 429, 500 }

Outcomes(payloads) ==
  { Rejected, Response(200, Unparseable) }
    \cup { Response(st, Null) : st \in FailStatuses }
    \cup { Response(200, p) : p \in payloads }

\* one failure and every success
FewOutcomes(payloads) == { Rejected } \cup { Response(200, p) : p \in payloads }

\* The i-th advance of the clock, in milliseconds.  The clock passes
\* through 0, 7d - 24h, 7d - 1, 7d, 7d + 1, ...: an entry of the map cache
\* written at 0, and an entry of the check cache written at 7d - 24h, are
\* read 1 ms before, at, and 1 ms after their expiry.
JumpAt(i) ==
  CASE i = 1 -> TTL.map - TTL.check
    [] i = 2 -> TTL.check - 1
    [] OTHER -> 1

\* identifiers of the feed: the padded keys, the keys as the literal
\* writes them, and identifiers of no table
FeedIds ==
  DOMAIN NUMERIC_TO_ISO3
    \cup { RAW_NUMERIC_TO_ISO3_Literal[i][1] :
             i \in 1..Len(RAW_NUMERIC_TO_ISO3_Literal) }
    \cup { << "-", "9", "9" >>, << "9", "9", "9" >> }

\* ISO_A3 properties of the feed: none, a code of no numeric key, a code
\* of the table
FeedIsoA3 == { << >>, << "X", "K", "X" >>, << "F", "R", "A" >> }

Geographies == { Geography(id, a3) : id \in FeedIds, a3 \in FeedIsoA3 }

\* geographies of the feed: the home country, the excluded destination,
\* countries of the color tables, an identifier that is not padded, and
\* identifiers of no table
FewFeedIds ==
  { << "6", "8", "2" >>, << "3", "7", "6" >>, << "2", "5", "0" >>,
    << "7", "8", "4" >>, << "2", "7", "6" >>, << "7", "9", "2" >>,
    << "4" >>, << "-", "9", "9" >>, << "9", "9", "9" >> }

FewGeographies == { Geography(id, a) : id \in FewFeedIds, a \in FeedIsoA3 }

\* a colors value that is not an object: { colors: "unavailable" }
NotATable == [t |-> "text"]

\* { green: "XX,FR", red: "ZZ", blue: "DE" }: codes of no table before
\* codes of the tables
UnknownFirst ==
  ColorTable(
    << [color |-> "green", codes |-> << "X", "X", ",", "F", "R" >>],
       [color |-> "red",   codes |-> << "Z", "Z" >>],
       [color |-> "blue",  codes |-> << "D", "E" >>] >>)

\* the visaColors prop: data.colors of the bodies of the map endpoint
ViewColors ==
  { MapScenario.data.colors, MapMixed.data.colors,
    MapOnlyExcluded.data.colors, MapEmptyColors.data.colors,
    MapBadCodes.data.colors, UnknownFirst, NotATable }

\* FilterType
Filters == { "all", "green", "blue", "yellow", "red" }

Reqs == 1..NumReqs

\* the slot of the specifications that handle one request at a time
Solo == { 1 }

MapRoutes == { "countries", "visa-map", "country" }

(***************************************************************************)
(* State.                                                                  *)
(***************************************************************************)
VARIABLES
  now,        \* Date.now(), in milliseconds since the start
  ticks,      \* number of clock advances so far
  apiKey,     \* RAPIDAPI_KEY is not empty
  checkFile,  \* data/visa-cache.json
  mapFile,    \* data/visa-map-cache.json
  pc,         \* per request: "idle", "fetching" (awaiting fetch), "done"
  req,        \* per request: the route and its parameter
  resp,       \* per request: the response sent
  hist,       \* per request: how its provider call ended ("none", "ok",
              \* "fail") and the steps taken so far
  last,       \* per destination and for the map: the last successful
              \* fetch whose entry the artifact has not lost, and the one
              \* before it
  faults      \* the restarts so far and, per cache class, what has happened
              \* to its artifact: garbled ("no", "yes", "repaired" by a
              \* later write) and restarted (the process was restarted
              \* after the last write)

\* the world map of the client
VARIABLES
  geo,        \* the geography rendered last
  shown,      \* the codes it resolved to and its style
  visaColors, \* the visaColors prop
  filter,     \* the filter selected
  clicks      \* the clicks on the geography so far, and the arguments of
              \* the calls of onCountryClick they made

server ==
  << now, ticks, apiKey, checkFile, mapFile, pc, req, resp, hist, last, faults >>

client == << geo, shown, visaColors, filter, clicks >>

vars == << server, client >>

NoReq == [route |-> "none", param |-> << >>]

NoHist == [call |-> "none", steps |-> << >>]

UpperDests == { toUpperCase(d) : d \in Dests }

NoFetches == [last |-> Null, prev |-> Null]

NoGeo == Geography(<< >>, << >>)

NoneShown ==
  [ iso3 |-> << >>, iso2 |-> << >>, colorKey |-> "", fill |-> "",
    hover |-> "", cursor |-> "" ]

NoClicks == [n |-> 0, called |-> << >>]

NoFault == [garbled |-> "no", restarted |-> FALSE]

\* the artifact of a class has been written
Written(fault) ==
  [garbled   |-> IF fault.garbled = "yes" THEN "repaired" ELSE fault.garbled,
   restarted |-> FALSE]

InitServer ==
  /\ now = 0
  /\ ticks = 0
  /\ apiKey \in BOOLEAN
  /\ checkFile = Absent
  /\ mapFile = Absent
  /\ pc = [r \in Reqs |-> "idle"]
  /\ req = [r \in Reqs |-> NoReq]
  /\ resp = [r \in Reqs |-> NoResponse]
  /\ hist = [r \in Reqs |-> NoHist]
  /\ last = [info |-> [d \in UpperDests |-> NoFetches], map |-> NoFetches]
  /\ faults = [restarts |-> 0, check |-> NoFault, map |-> NoFault]

\* the server at its start, no map on display
Init ==
  /\ InitServer
  /\ geo = NoGeo
  /\ shown = NoneShown
  /\ visaColors = Null
  /\ filter = "all"
  /\ clicks = NoClicks

\* the world map is given a geography of the feed to render
InitClient ==
  /\ InitServer
  /\ geo \in Geographies
  /\ shown = NoneShown
  /\ visaColors = MapScenario.data.colors
  /\ filter = "all"
  /\ clicks = NoClicks

\* the world map is given a color table and a geography
InitView ==
  /\ InitServer
  /\ geo \in FewGeographies
  /\ shown = NoneShown
  /\ visaColors \in ViewColors
  /\ filter = "all"
  /\ clicks = NoClicks

\* a successful fetch at time t is recorded as the last one; the one before
\* it is kept while it is less than ttl older
Fetched(fetches, data, t, ttl) ==
  [last |-> [t |-> "fetched", data |-> data, at |-> t],
   prev |-> IF truthy(fetches.last) /\ t - fetches.last.at < ttl
              THEN fetches.last
              ELSE Null]

\* the slots are interchangeable: a request takes the first idle one
FirstIdle(r) == \A q \in Reqs : q < r => pc[q] # "idle"

CallResult(outcome) == IF Succeeded(outcome) THEN "ok" ELSE "fail"

(***************************************************************************)
(* Actions.                                                                *)
(***************************************************************************)
\* GET /api/visa-info/:destinationCode arrives: the handler runs up to its
\* response or to the await of fetch()
StartVisaInfo(r, param) ==
  /\ pc[r] = "idle"
  /\ FirstIdle(r)
  /\ LET res == VisaInfoLookup(checkFile, apiKey, param, now)
     IN  /\ pc' = [pc EXCEPT ![r] = IF res.fetch THEN "fetching" ELSE "done"]
         /\ resp' = [resp EXCEPT ![r] = res.resp]
         /\ hist' = [hist EXCEPT ![r] =
                       [call |-> "none", steps |-> << "START" >> \o res.steps]]
  /\ checkFile' = VisaInfoLookup(checkFile, apiKey, param, now).file
  /\ req' = [req EXCEPT ![r] = [route |-> "visa-info", param |-> param]]
  /\ UNCHANGED << now, ticks, apiKey, mapFile, last, faults >>
  /\ UNCHANGED client

\* fetch() of the check endpoint settles: the rest of the handler runs
SettleVisaInfo(r, outcome) ==
  /\ pc[r] = "fetching"
  /\ req[r].route = "visa-info"
  /\ LET res == VisaInfoSettle(checkFile, req[r].param, outcome, now)
     IN  /\ checkFile' = res.file
         /\ resp' = [resp EXCEPT ![r] = res.resp]
         /\ hist' = [hist EXCEPT ![r] =
                       [call |-> CallResult(outcome),
                        steps |-> hist[r].steps \o res.steps]]
  /\ last' = IF Succeeded(outcome)
               THEN [last EXCEPT !.info[toUpperCase(req[r].param)] =
                                   Fetched(@, outcome.body, now, TTL.check)]
               ELSE last
  /\ faults' = IF Succeeded(outcome)
                 THEN [faults EXCEPT !.check = Written(@)]
                 ELSE faults
  /\ pc' = [pc EXCEPT ![r] = "done"]
  /\ UNCHANGED << now, ticks, apiKey, mapFile, req >>
  /\ UNCHANGED client

RespondStep(response) ==
  IF response.status = 200 THEN "RESPOND" ELSE "RESPOND_WITH_ERROR"

\* GET /api/countries, /api/visa-map or /api/countries/:id arrives: the
\* handler runs getVisaMap() up to its return or to the await of fetch()
StartMapRoute(r, route, param) ==
  /\ pc[r] = "idle"
  /\ FirstIdle(r)
  /\ LET res == GetVisaMapLookup(mapFile, apiKey, now)
         out == MapRouteRespond(route, param, res.value)
     IN  /\ pc' = [pc EXCEPT ![r] = IF res.fetch THEN "fetching" ELSE "done"]
         /\ resp' = [resp EXCEPT ![r] = IF res.fetch THEN NoResponse ELSE out]
         /\ hist' = [hist EXCEPT ![r] =
                       [call |-> "none",
                        steps |-> << "START" >> \o res.steps \o
                          (IF res.fetch THEN << >>
                                        ELSE << RespondStep(out) >>)]]
  /\ mapFile' = GetVisaMapLookup(mapFile, apiKey, now).file
  /\ req' = [req EXCEPT ![r] = [route |-> route, param |-> param]]
  /\ UNCHANGED << now, ticks, apiKey, checkFile, last, faults >>
  /\ UNCHANGED client

\* fetch() of the map endpoint settles: getVisaMap() returns and the
\* handler responds
SettleMapRoute(r, outcome) ==
  /\ pc[r] = "fetching"
  /\ req[r].route \in MapRoutes
  /\ LET res == GetVisaMapSettle(mapFile, outcome, now)
         out == MapRouteRespond(req[r].route, req[r].param, res.value)
     IN  /\ mapFile' = res.file
         /\ resp' = [resp EXCEPT ![r] = out]
         /\ hist' = [hist EXCEPT ![r] =
                       [call |-> CallResult(outcome),
                        steps |-> hist[r].steps \o res.steps \o
                                  << RespondStep(out) >>]]
  /\ last' = IF Succeeded(outcome)
               THEN [last EXCEPT !.map = Fetched(@, outcome.body, now, TTL.map)]
               ELSE last
  /\ faults' = IF Succeeded(outcome)
                 THEN [faults EXCEPT !.map = Written(@)]
                 ELSE faults
  /\ pc' = [pc EXCEPT ![r] = "done"]
  /\ UNCHANGED << now, ticks, apiKey, checkFile, req >>
  /\ UNCHANGED client

\* the response has been delivered: the slot serves the next request
Recycle(r) ==
  /\ pc[r] = "done"
  /\ pc' = [pc EXCEPT ![r] = "idle"]
  /\ req' = [req EXCEPT ![r] = NoReq]
  /\ resp' = [resp EXCEPT ![r] = NoResponse]
  /\ hist' = [hist EXCEPT ![r] = NoHist]
  /\ UNCHANGED << now, ticks, apiKey, checkFile, mapFile, last, faults >>
  /\ UNCHANGED client

\* time passes
Tick ==
  /\ ticks < MaxTicks
  /\ now' = now + JumpAt(ticks + 1)
  /\ ticks' = ticks + 1
  /\ UNCHANGED << apiKey, checkFile, mapFile, pc, req, resp, hist, last,
                  faults >>
  /\ UNCHANGED client

\* the server process is stopped and started again: the requests in flight
\* die with it, RAPIDAPI_KEY is read again from the environment, the files
\* of DATA_DIR stay
Restart ==
  /\ faults.restarts < MaxRestarts
  /\ apiKey' \in BOOLEAN
  /\ checkFile' = AfterRestart(checkFile)
  /\ mapFile' = AfterRestart(mapFile)
  /\ pc' = [r \in Reqs |-> "idle"]
  /\ req' = [r \in Reqs |-> NoReq]
  /\ resp' = [r \in Reqs |-> NoResponse]
  /\ hist' = [r \in Reqs |-> NoHist]
  /\ faults' = [faults EXCEPT !.restarts = @ + 1,
                              !.check.restarted = checkFile # Absent,
                              !.map.restarted = mapFile # Absent]
  /\ UNCHANGED << now, ticks, last >>
  /\ UNCHANGED client

\* the check-cache file is damaged: JSON.parse rejects its text, and the
\* entries it held are lost
GarbleCheckFile ==
  /\ checkFile.t = "json"
  /\ faults.check.garbled = "no"
  /\ checkFile' = Garbled
  /\ last' = [last EXCEPT !.info = [d \in UpperDests |-> NoFetches]]
  /\ faults' = [faults EXCEPT !.check.garbled = "yes"]
  /\ UNCHANGED << now, ticks, apiKey, mapFile, pc, req, resp, hist >>
  /\ UNCHANGED client

\* the map-cache file is damaged
GarbleMapFile ==
  /\ mapFile.t = "json"
  /\ faults.map.garbled = "no"
  /\ mapFile' = Garbled
  /\ last' = [last EXCEPT !.map = NoFetches]
  /\ faults' = [faults EXCEPT !.map.garbled = "yes"]
  /\ UNCHANGED << now, ticks, apiKey, checkFile, pc, req, resp, hist >>
  /\ UNCHANGED client

\* the callback of geographies.map runs on the geography
Render ==
  /\ geo # NoGeo
  /\ shown = NoneShown
  /\ shown' = Draw(geo, visaColors, filter)
  /\ UNCHANGED << server, geo, visaColors, filter, clicks >>

\* a filter button is pressed: setFilter(f), and the map is rendered again
SetFilter(f) ==
  /\ geo # NoGeo
  /\ filter # f
  /\ filter' = f
  /\ shown' = IF shown = NoneShown THEN shown ELSE Draw(geo, visaColors, f)
  /\ UNCHANGED << server, geo, visaColors, clicks >>

\* the geography on display is clicked
Click ==
  /\ shown # NoneShown
  /\ clicks.n < MaxClicks
  /\ clicks' = [n |-> clicks.n + 1, called |-> clicks.called \o OnClick(shown)]
  /\ UNCHANGED << server, geo, shown, visaColors, filter >>

(***************************************************************************)
(* Specifications.                                                         *)
(***************************************************************************)
\* all four routes, one request at a time, both caches
Next ==
  \/ \E r \in Solo, d \in Dests : StartVisaInfo(r, d)
  \/ \E r \in Solo, o \in Outcomes(InfoPayloads) : SettleVisaInfo(r, o)
  \/ \E r \in Solo : StartMapRoute(r, "countries", << >>)
  \/ \E r \in Solo : StartMapRoute(r, "visa-map", << >>)
  \/ \E r \in Solo, id \in CountryIds : StartMapRoute(r, "country", id)
  \/ \E r \in Solo, o \in Outcomes(FewMapPayloads) : SettleMapRoute(r, o)
  \/ \E r \in Solo : Recycle(r)
  \/ Tick

Spec == Init /\ [][Next]_vars

\* GET /api/visa-info requests that overlap in time, for one destination
\* written in two letter cases
NextInfo ==
  \/ \E r \in Reqs, d \in SameDest : StartVisaInfo(r, d)
  \/ \E r \in Reqs, o \in Outcomes(InfoPayloads) : SettleVisaInfo(r, o)
  \/ \E r \in Reqs : Recycle(r)
  \/ Tick

SpecInfo == Init /\ [][NextInfo]_vars

\* the routes served from the visa map, on every shape of map body
NextMap ==
  \/ \E r \in Solo : StartMapRoute(r, "countries", << >>)
  \/ \E r \in Solo : StartMapRoute(r, "visa-map", << >>)
  \/ \E r \in Solo, id \in CountryIds : StartMapRoute(r, "country", id)
  \/ \E r \in Solo, o \in Outcomes(MapPayloads) : SettleMapRoute(r, o)
  \/ \E r \in Solo : Recycle(r)
  \/ Tick

SpecMap == Init /\ [][NextMap]_vars

\* requests of GET /api/visa-info (one destination) and of GET /api/visa-map
\* that overlap in time
NextRace ==
  \/ \E r \in Reqs, d \in OneDest : StartVisaInfo(r, d)
  \/ \E r \in Reqs, o \in FewOutcomes(InfoPayloads) : SettleVisaInfo(r, o)
  \/ \E r \in Reqs : StartMapRoute(r, "visa-map", << >>)
  \/ \E r \in Reqs, o \in FewOutcomes(FewMapPayloads) : SettleMapRoute(r, o)
  \/ \E r \in Reqs : Recycle(r)
  \/ Tick

SpecRace == Init /\ [][NextRace]_vars

\* requests of GET /api/visa-info for two destinations and of GET
\* /api/visa-map that overlap in time
NextKeys ==
  \/ \E r \in Reqs, d \in TwoDests : StartVisaInfo(r, d)
  \/ \E r \in Reqs, o \in FewOutcomes(OneInfoPayload) : SettleVisaInfo(r, o)
  \/ \E r \in Reqs : StartMapRoute(r, "visa-map", << >>)
  \/ \E r \in Reqs, o \in FewOutcomes({ MapScenario }) : SettleMapRoute(r, o)
  \/ \E r \in Reqs : Recycle(r)
  \/ Tick

SpecKeys == Init /\ [][NextKeys]_vars

\* requests of the three routes served from the visa map that overlap in
\* time
NextShare ==
  \/ \E r \in Reqs : StartMapRoute(r, "countries", << >>)
  \/ \E r \in Reqs : StartMapRoute(r, "visa-map", << >>)
  \/ \E r \in Reqs, id \in CountryIds : StartMapRoute(r, "country", id)
  \/ \E r \in Reqs, o \in FewOutcomes(FewMapPayloads) : SettleMapRoute(r, o)
  \/ \E r \in Reqs : Recycle(r)
  \/ Tick

SpecShare == Init /\ [][NextShare]_vars

\* the world map, rendering a geography of the feed
NextClient == Render

SpecClient == InitClient /\ [][NextClient]_vars

\* the world map with its color table, its filter buttons and its clicks
NextView ==
  \/ Render
  \/ \E f \in Filters : SetFilter(f)
  \/ Click

SpecView == InitView /\ [][NextView]_vars

\* What the server does by itself: time passes and a response that has
\* been sent is delivered.  A request arrives when a client sends one and
\* fetch() settles when the provider answers: neither is the server's to
\* decide, and no timer is armed that would settle fetch() otherwise.
Fairness == WF_vars(Tick) /\ \A r \in Reqs : WF_vars(Recycle(r))

SpecLive == Init /\ [][Next]_vars /\ Fairness

\* all four routes, one request at a time, across restarts of the process
NextRestart ==
  \/ \E r \in Solo, d \in Dests : StartVisaInfo(r, d)
  \/ \E r \in Solo, o \in Outcomes(InfoPayloads) : SettleVisaInfo(r, o)
  \/ \E r \in Solo : StartMapRoute(r, "countries", << >>)
  \/ \E r \in Solo : StartMapRoute(r, "visa-map", << >>)
  \/ \E r \in Solo, id \in CountryIds : StartMapRoute(r, "country", id)
  \/ \E r \in Solo, o \in Outcomes(FewMapPayloads) : SettleMapRoute(r, o)
  \/ \E r \in Solo : Recycle(r)
  \/ Tick
  \/ Restart

SpecRestart == Init /\ [][NextRestart]_vars

\* all four routes, one request at a time, with cache files that get
\* damaged
NextGarble ==
  \/ \E r \in Solo, d \in Dests : StartVisaInfo(r, d)
  \/ \E r \in Solo, o \in Outcomes(InfoPayloads) : SettleVisaInfo(r, o)
  \/ \E r \in Solo : StartMapRoute(r, "countries", << >>)
  \/ \E r \in Solo : StartMapRoute(r, "visa-map", << >>)
  \/ \E r \in Solo, id \in CountryIds : StartMapRoute(r, "country", id)
  \/ \E r \in Solo, o \in Outcomes(FaultyMapPayloads) : SettleMapRoute(r, o)
  \/ \E r \in Solo : Recycle(r)
  \/ Tick
  \/ GarbleCheckFile
  \/ GarbleMapFile

SpecGarble == Init /\ [][NextGarble]_vars


(***************************************************************************)
(* Vocabulary of the properties.                                           *)
(***************************************************************************)
Has(steps, x) == \E i \in 1..Len(steps) : steps[i] = x

\* request r starts in this step
Starts(r) == pc[r] = "idle" /\ pc'[r] # "idle"

\* the provider call of request r settles in this step
Settles(r) == pc[r] = "fetching" /\ pc'[r] = "done"

\* the last successful fetch for the cache entry request r reads
LastFetchOf(rq) ==
  IF rq.route = "visa-info"
    THEN last.info[toUpperCase(rq.param)].last
    ELSE last.map.last

\* the successful fetch before it, when less than a TTL older
PrevFetchOf(rq) ==
  IF rq.route = "visa-info"
    THEN last.info[toUpperCase(rq.param)].prev
    ELSE last.map.prev

TTLOf(rq) == IF rq.route = "visa-info" THEN TTL.check ELSE TTL.map

\* what the handler of request rq sends when it is given the cached data
ServedWith(rq, data) ==
  IF rq.route = "visa-info"
    THEN JsonResponse(data)
    ELSE MapRouteRespond(rq.route, rq.param, data)

(***************************************************************************)
(* C1. TTL boundary.  A request that looks its cache entry up at time now  *)
(* gets a hit, and answers with the data stored by the last successful     *)
(* fetch at time T, if and only if that fetch exists and now - T < TTL of  *)
(* the class (24h check cache, 7 days map cache); otherwise it gets a      *)
(* miss: there is no third outcome.                                        *)
(***************************************************************************)
C1_TTLBoundary ==
  [][\A r \in Reqs :
       Starts(r) =>
         LET f     == LastFetchOf(req'[r])
             fresh == truthy(f) /\ now - f.at < TTLOf(req'[r])
         IN  /\ Has(hist'[r].steps, "HIT") <=> fresh
             /\ Has(hist'[r].steps, "MISS") <=> ~fresh
             /\ fresh => /\ pc'[r] = "done"
                         /\ resp'[r] = ServedWith(req'[r], f.data)]_vars

\* a visa-info request misses at exactly T + 24h and awaits the provider
C1_Witness ==
  \E r \in Reqs :
    /\ pc[r] = "fetching"
    /\ req[r].route = "visa-info"
    /\ truthy(LastFetchOf(req[r]))
    /\ now - LastFetchOf(req[r]).at = TTL.check

\* a request of the map cache hits at T + 7d - 1
C1_MapHitReached ==
  \E r \in Reqs :
    /\ pc[r] = "done"
    /\ req[r].route \in MapRoutes
    /\ Has(hist[r].steps, "HIT")
    /\ now - LastFetchOf(req[r]).at = TTL.map - 1

(***************************************************************************)
(* C2. No write on failure.  The step in which a provider call ends in a   *)
(* transport error, a status that is not ok or an unparseable body leaves  *)
(* both cache files as they were, and so does the lookup step of every     *)
(* request.                                                                *)
(***************************************************************************)
C2_NoWriteOnFailure ==
  [][\A r \in Reqs :
       (Starts(r) \/ (Settles(r) /\ hist'[r].call = "fail")) =>
         /\ checkFile' = checkFile
         /\ mapFile' = mapFile]_vars

\* a visa-info call has failed while the expired entry of an earlier fetch
\* for the same route is in the file
C2_Witness ==
  \E r \in Reqs :
    /\ pc[r] = "done"
    /\ req[r].route = "visa-info"
    /\ hist[r].call = "fail"
    /\ truthy(LastFetchOf(req[r]))
    /\ now - LastFetchOf(req[r]).at >= TTL.check
    /\ checkFile.t = "json"

Responds == { "RESPOND", "RESPOND_WITH_ERROR" }

Courses ==
  UNION { { << "START", "CACHE_LOOKUP", "HIT", e >>,
            << "START", "CACHE_LOOKUP", "MISS", "NO_KEY", e >>,
            << "START", "CACHE_LOOKUP", "MISS", "PROVIDER_CALL",
               "SUCCESS", "CACHE_WRITE", e >>,
            << "START", "CACHE_LOOKUP", "MISS", "PROVIDER_CALL",
               "FAILURE", e >> } : e \in Responds }

AwaitingCourse == << "START", "CACHE_LOOKUP", "MISS", "PROVIDER_CALL" >>

C4_RequestCourse ==
  \A r \in Reqs :
    /\ pc[r] = "idle" => hist[r].steps = << >>
    /\ pc[r] = "fetching" => hist[r].steps = AwaitingCourse
    /\ pc[r] = "done" => hist[r].steps \in Courses
    /\ Has(hist[r].steps, "SUCCESS") <=> hist[r].call = "ok"
    /\ Has(hist[r].steps, "FAILURE") <=> hist[r].call = "fail"
    /\ (pc[r] = "done" /\ hist[r].call = "fail" /\ req[r].route = "visa-info")
         => resp[r].status # 200

\* a request has gone through miss, provider call, success, cache write and
\* response
C4_Witness ==
  \E r \in Reqs :
    /\ pc[r] = "done"
    /\ hist[r].steps = << "START", "CACHE_LOOKUP", "MISS", "PROVIDER_CALL",
                          "SUCCESS", "CACHE_WRITE", "RESPOND" >>
    /\ resp[r].status = 200

(***************************************************************************)
(* The visa map a completed request of the map routes was given by         *)
(* getVisaMap(), where requests are handled one at a time.                 *)
(***************************************************************************)
GivenMap(r) ==
  IF Has(hist[r].steps, "HIT") \/ hist[r].call = "ok"
    THEN last.map.last.data
    ELSE Null

\* GET /api/countries has answered request r
CountriesDone(r) == pc[r] = "done" /\ req[r].route = "countries"

\* ... with the list aggregated from a color table
Aggregated(r) == CountriesDone(r) /\ truthy(ColorsOf(GivenMap(r)))

(***************************************************************************)
(* C5. Fallback chain.  When GET countries finds no usable map cache entry *)
(* and the API key is missing or the provider call fails, it answers 200   *)
(* with the static list, which is not empty.                               *)
(***************************************************************************)
C5_FallbackOnFailure ==
  \A r \in Reqs :
    (CountriesDone(r) /\ (Has(hist[r].steps, "NO_KEY") \/ hist[r].call = "fail"))
      => /\ resp[r].status = 200
         /\ resp[r].body.t = "countries"
         /\ resp[r].body.list = mockCountries
         /\ Len(resp[r].body.list) > 0

\* GET countries has answered after a failed provider call
C5_Witness ==
  \E r \in Reqs :
    /\ CountriesDone(r)
    /\ hist[r].call = "fail"
    /\ resp[r].status = 200
    /\ Len(resp[r].body.list) = 15

(***************************************************************************)
(* C6. GET countries never answers with an empty list: when the map data   *)
(* yields no country, the fallback list is given instead.                  *)
(***************************************************************************)
C6_NeverEmptyList ==
  \A r \in Reqs :
    CountriesDone(r) => /\ resp[r].status = 200
                        /\ Len(resp[r].body.list) > 0

(***************************************************************************)
(* The codes a color table lists: the occurrences << i, j >> of the j-th   *)
(* code of the i-th color, normalised, without the excluded ones.          *)
(***************************************************************************)
Listed(entries) ==
  UNION { { << i, j >> : j \in 1..Len(split(entries[i].codes)) } :
            i \in { i \in 1..Len(entries) : entries[i].codes # << >> } }

CodeAt(entries, o) == toUpperCase(trim(split(entries[o[1]].codes)[o[2]]))

Kept(entries) ==
  { o \in Listed(entries) :
      CodeAt(entries, o) \notin { << "S", "A" >>, << "I", "L" >> } }

\* the fixed table of the specification
StatusOfColor(color) ==
  IF color = "green" THEN "visa_free"
  ELSE IF color \in { "blue", "yellow" } THEN "e_visa"
  ELSE "visa_required"

(***************************************************************************)
(* C7. Exclusion.  The aggregated list has no entry for SA and none for    *)
(* IL, whatever the color, letter case and surrounding whitespace of their *)
(* occurrences in the color lists.                                         *)
(***************************************************************************)
C7_ExcludedNeverListed ==
  \A r \in Reqs :
    Aggregated(r) =>
      \A k \in 1..Len(resp[r].body.list) :
        toUpperCase(trim(resp[r].body.list[k].id))
          \notin { << "S", "A" >>, << "I", "L" >> }

\* a list has been aggregated from { green: " sa ,il,Tr", ... }
C7_Witness ==
  \E r \in Reqs :
    /\ Aggregated(r)
    /\ GivenMap(r) = MapMixed
    /\ \E k \in 1..Len(resp[r].body.list) :
         resp[r].body.list[k].id = << "t", "r" >>

IdStatus(c) == << c.id, c.visaStatus >>

Failures == { o \in Outcomes({ }) : ~Succeeded(o) }

\* the responses of request rq to a failed provider call
ResponsesToFailure(rq) ==
  IF rq.route = "visa-info"
    THEN { VisaInfoSettle(checkFile, rq.param, o, now).resp : o \in Failures }
    ELSE { MapRouteRespond(rq.route, rq.param,
                           GetVisaMapSettle(mapFile, o, now).value) :
             o \in Failures }

C10_NoKeyToldApart ==
  \A r \in Reqs :
    (/\ pc[r] = "done"
     /\ req[r].route \in { "visa-info", "visa-map" }
     /\ Has(hist[r].steps, "NO_KEY"))
      => resp[r] \notin ResponsesToFailure(req[r])

(***************************************************************************)
(* C11. No call without a key.  While no API key is configured no request  *)
(* awaits the provider or has called it: a request that misses the cache   *)
(* goes from the lookup straight to its no-key answer, for the routes      *)
(* served by getVisaMap and for GET visa-info.                             *)
(***************************************************************************)
C11_NoCallWithoutKey ==
  ~apiKey =>
    \A r \in Reqs :
      /\ pc[r] # "fetching"
      /\ ~Has(hist[r].steps, "PROVIDER_CALL")
      /\ hist[r].call = "none"
      /\ Has(hist[r].steps, "MISS") =>
           \E e \in Responds :
             hist[r].steps = << "START", "CACHE_LOOKUP", "MISS", "NO_KEY", e >>

\* with the key removed at a restart, visa-info has looked up an expired
\* entry and answered that no key is configured
C11_Witness ==
  \E r \in Reqs :
    /\ ~apiKey
    /\ pc[r] = "done"
    /\ req[r].route = "visa-info"
    /\ checkFile.t = "json"
    /\ hist[r].steps = << "START", "CACHE_LOOKUP", "MISS", "NO_KEY",
                          "RESPOND_WITH_ERROR" >>
    /\ resp[r] = ErrorResponse(500, "API key not configured")

(***************************************************************************)
(* C12. Bounded provider calls.  A request that awaits the provider         *)
(* eventually completes with a response, whether the provider answers or   *)
(* not.                                                                    *)
(***************************************************************************)
C12_CallBounded ==
  \A r \in Reqs :
    (pc[r] = "fetching") ~> (pc[r] = "done" /\ resp[r] # NoResponse)

(***************************************************************************)
(* The cache artifact request rq reads, and the entry stored in it for rq. *)
(***************************************************************************)
ClassOf(rq) == IF rq.route = "visa-info" THEN "check" ELSE "map"

FileOf(rq) == IF rq.route = "visa-info" THEN checkFile ELSE mapFile

KeyOf(rq) == << "S", "A", "-" >> \o toUpperCase(rq.param)

StoredFor(rq) ==
  IF FileOf(rq).t # "json" THEN Null
  ELSE IF rq.route # "visa-info" THEN FileOf(rq).v
  ELSE IF KeyOf(rq) \in DOMAIN FileOf(rq).v.m THEN FileOf(rq).v.m[KeyOf(rq)]
  ELSE Null

\* the entry a successful fetch leaves in the artifact
EntryOf(fetch) == [t |-> "entry", data |-> fetch.data, timestamp |-> fetch.at]

\* the answers of the catch branches of the four handlers
CaughtResponses ==
  { ErrorResponse(500, e) :
      e \in { "Failed to fetch countries", "Failed to fetch visa map",
              "Failed to fetch country", "Failed to fetch visa information" } }

(***************************************************************************)
(* C13. A garbled artifact is a miss.  A request that finds its cache file *)
(* unparseable takes the course of a miss: it goes on to the provider (to  *)
(* its no-key answer without a key), no catch branch answers for it and    *)
(* the files stay as they are.  The successful fetch of such a request     *)
(* rewrites the file with its entry, and from then on a lookup hits        *)
(* exactly while the last fetch is less than the TTL old.                  *)
(***************************************************************************)
C13_GarbledIsMiss ==
  [][\A r \in Reqs :
       /\ (Starts(r) /\ FileOf(req'[r]) = Garbled) =>
             /\ SubSeq(hist'[r].steps, 1, 3) = << "START", "CACHE_LOOKUP", "MISS" >>
             /\ apiKey => /\ pc'[r] = "fetching"
                          /\ hist'[r].steps = AwaitingCourse
             /\ ~apiKey => /\ pc'[r] = "done"
                           /\ Has(hist'[r].steps, "NO_KEY")
                           /\ resp'[r] = ServedWith(req'[r], Null)
                                \/ resp'[r] = ErrorResponse(500, "API key not configured")
             /\ resp'[r] \notin CaughtResponses
             /\ checkFile' = checkFile
             /\ mapFile' = mapFile
       /\ (Settles(r) /\ hist'[r].call = "ok" /\ FileOf(req[r]) = Garbled) =>
             /\ StoredFor(req[r])' = EntryOf(LastFetchOf(req[r]))'
             /\ LastFetchOf(req[r])'.at = now
             /\ resp'[r] = ServedWith(req[r], LastFetchOf(req[r])'.data)
       /\ (Starts(r) /\ faults[ClassOf(req'[r])].garbled = "repaired") =>
             LET f     == LastFetchOf(req'[r])
                 fresh == truthy(f) /\ now - f.at < TTLOf(req'[r])
             IN  /\ Has(hist'[r].steps, "HIT") <=> fresh
                 /\ fresh => /\ pc'[r] = "done"
                             /\ resp'[r] = ServedWith(req'[r], f.data)]_vars

\* visa-info is answered from the entry that a fetch wrote over the garbled
\* file
C13_Witness ==
  \E r \in Reqs :
    /\ pc[r] = "done"
    /\ req[r].route = "visa-info"
    /\ faults.check.garbled = "repaired"
    /\ Has(hist[r].steps, "HIT")
    /\ resp[r] = JsonResponse(StoredFor(req[r]).data)

(***************************************************************************)
(* C14. Entries survive a restart.  A restart of the process leaves both   *)
(* cache files as they are, and a request handled after it hits, calls no  *)
(* provider and answers with the stored data, exactly while the last       *)
(* successful fetch for its entry, made before or after the restart, is    *)
(* less than the TTL old.                                                  *)
(***************************************************************************)
C14_SurvivesRestart ==
  [][/\ faults'.restarts # faults.restarts =>
          /\ checkFile' = checkFile
          /\ mapFile' = mapFile
     /\ \A r \in Reqs :
          Starts(r) =>
            LET f     == LastFetchOf(req'[r])
                fresh == truthy(f) /\ now - f.at < TTLOf(req'[r])
            IN  /\ fresh => /\ pc'[r] = "done"
                            /\ ~Has(hist'[r].steps, "PROVIDER_CALL")
                            /\ resp'[r] = ServedWith(req'[r], f.data)
                /\ Has(hist'[r].steps, "HIT") => fresh]_vars

\* GET countries is answered from the map entry written before the restart,
\* 1 ms before the entry expires
C14_Witness ==
  \E r \in Reqs :
    /\ CountriesDone(r)
    /\ faults.map.restarted
    /\ Has(hist[r].steps, "HIT")
    /\ now - last.map.last.at = TTL.map - 1
    /\ resp[r] = CountriesRespond(last.map.last.data)

(***************************************************************************)
(* C15. A put overwrites and stamps.  After any sequence of puts each      *)
(* cache file holds, for the map and for every destination, exactly the    *)
(* data of the last successful fetch with the time of that fetch as its    *)
(* timestamp, and nothing for a destination never fetched: earlier data is *)
(* neither kept nor merged, whether or not the entry it replaced was still *)
(* fresh.                                                                  *)
(***************************************************************************)
C15_LastPutWins ==
  /\ IF truthy(last.map.last)
       THEN mapFile = [t |-> "json", v |-> EntryOf(last.map.last)]
       ELSE mapFile = Absent
  /\ \A d \in UpperDests :
       LET k == << "S", "A", "-" >> \o d
       IN  IF truthy(last.info[d].last)
             THEN /\ checkFile.t = "json"
                  /\ k \in DOMAIN checkFile.v.m
                  /\ checkFile.v.m[k] = EntryOf(last.info[d].last)
             ELSE checkFile.t = "json" => k \notin DOMAIN checkFile.v.m

\* in both files an entry that was still fresh has been replaced by a later
\* fetch with other data
Replaced(fetches, ttl) ==
  /\ truthy(fetches.prev)
  /\ fetches.prev.data # fetches.last.data
  /\ fetches.prev.at < fetches.last.at
  /\ fetches.last.at - fetches.prev.at < ttl

C15_Witness ==
  /\ Replaced(last.map, TTL.map)
  /\ mapFile.v.data = last.map.last.data
  /\ Replaced(last.info[<< "F", "R" >>], TTL.check)
  /\ checkFile.v.m[<< "S", "A", "-", "F", "R" >>].data
       = last.info[<< "F", "R" >>].last.data

(***************************************************************************)
(* C16. The code tables are a bijection.  Every alpha-2 code of            *)
(* ISO2_TO_ISO3 is given back by ISO3_TO_ISO2 from its alpha-3 code, and   *)
(* there are as many alpha-3 codes as alpha-2 codes; so the alpha-2 code   *)
(* the map resolves for a geography maps back to the geography's alpha-3   *)
(* code.                                                                   *)
(***************************************************************************)
C16_TablesBijective ==
  /\ \A c \in DOMAIN ISO2_TO_ISO3 :
       /\ ISO2_TO_ISO3[c] \in DOMAIN ISO3_TO_ISO2
       /\ ISO3_TO_ISO2[ISO2_TO_ISO3[c]] = c
  /\ Cardinality({ ISO2_TO_ISO3[c] : c \in DOMAIN ISO2_TO_ISO3 })
       = Cardinality(DOMAIN ISO2_TO_ISO3)
  /\ Cardinality(DOMAIN ISO3_TO_ISO2) = Cardinality(DOMAIN ISO2_TO_ISO3)
  /\ shown.iso2 # << >> => Get(ISO2_TO_ISO3, shown.iso2) = shown.iso3

\* the geography 250 has been resolved to FRA and, through ISO3_TO_ISO2,
\* to FR
C16_Witness ==
  /\ geo.id = << "2", "5", "0" >>
  /\ shown.iso3 = << "F", "R", "A" >>
  /\ shown.iso2 = << "F", "R" >>
  /\ ISO2_TO_ISO3[shown.iso2] = shown.iso3

(***************************************************************************)
(* C17. Numeric identifiers are resolved in their padded form.  Every key  *)
(* of NUMERIC_TO_ISO3 has three characters, and a geography whose          *)
(* identifier is a key of the table once padded to three digits resolves   *)
(* to the alpha-3 code of that key: "4" resolves as "004" does, to AFG.    *)
(***************************************************************************)
C17_PaddedLookup ==
  /\ \A k \in DOMAIN NUMERIC_TO_ISO3 : Len(k) = 3
  /\ NUMERIC_TO_ISO3[<< "0", "0", "4" >>] = << "A", "F", "G" >>
  /\ (shown # NoneShown
        /\ padStart(geo.id, 3, "0") \in DOMAIN NUMERIC_TO_ISO3) =>
       shown.iso3 = NUMERIC_TO_ISO3[padStart(geo.id, 3, "0")]

(***************************************************************************)
(* C18. GET countries/{id} follows the fallback chain of GET countries:    *)
(* when getVisaMap() gives a color table the answer is the entry of the    *)
(* aggregated list with that id, or 404 when the list has none; the static *)
(* store answers only when there is no color table.                        *)
(***************************************************************************)
C18_SameFallbackChain ==
  \A r \in Reqs :
    (pc[r] = "done" /\ req[r].route = "country") =>
      LET id   == toLowerCase(req[r].param)
          list == CountriesRespond(GivenMap(r)).body.list
      IN  IF \E k \in 1..Len(list) : list[k].id = id
            THEN \E k \in 1..Len(list) :
                   /\ list[k].id = id
                   /\ resp[r] = JsonResponse([t |-> "country", c |-> list[k]])
            ELSE resp[r] = ErrorResponse(404, "Country not found")

(***************************************************************************)
(* C19. One response, never an exception.  Whatever the provider does      *)
(* (success, also with a color table that makes the aggregator throw; a    *)
(* status that is not ok; a transport error; a body that does not parse)   *)
(* and whatever the cache file is (absent, fresh, expired, garbled), a     *)
(* request whose handler has run to its end has sent exactly one response: *)
(* data with status 200 or an error object with status 404, 429 or 500;    *)
(* a request that has not, has sent none.                                  *)
(***************************************************************************)
RespondsIn(steps) == { i \in 1..Len(steps) : steps[i] \in Responds }

DefinedErrors ==
  CaughtResponses
    \cup { ErrorResponse(500, "API key not configured"),
           ErrorResponse(404, "Visa map not available"),
           ErrorResponse(404, "Country not found") }
    \cup { ErrorResponse(st, "Failed to fetch visa info") : st \in FailStatuses }

C19_OneResponse ==
  \A r \in Reqs :
    /\ pc[r] = "done" =>
         /\ RespondsIn(hist[r].steps) = { Len(hist[r].steps) }
         /\ \/ resp[r].status = 200 /\ resp[r].body.t # "error"
            \/ resp[r] \in DefinedErrors
    /\ pc[r] # "done" =>
         /\ RespondsIn(hist[r].steps) = { }
         /\ resp[r] = NoResponse

\* GET countries has answered 500 from its catch branch: the aggregator
\* threw on the color table just fetched over a garbled cache file
C19_Witness ==
  \E r \in Reqs :
    /\ CountriesDone(r)
    /\ faults.map.garbled = "repaired"
    /\ hist[r].call = "ok"
    /\ resp[r] = ErrorResponse(500, "Failed to fetch countries")

(***************************************************************************)
(* C20. Concurrent writers.  When the fetch of a visa-info request         *)
(* succeeds, also while another request for the same destination is in     *)
(* flight or has just written, the entry left for the destination is the   *)
(* whole payload of this fetch with the time of this write; the writer is  *)
(* answered with its own payload by the ordinary success course, and the   *)
(* other request is told nothing.  Once no request for the destination is  *)
(* in flight the entry is the one of the last writer.                      *)
(***************************************************************************)
SuccessCourse ==
  << "START", "CACHE_LOOKUP", "MISS", "PROVIDER_CALL", "SUCCESS",
     "CACHE_WRITE", "RESPOND" >>

C20_LastWriterWins ==
  [][\A r \in Reqs :
       (Settles(r) /\ hist'[r].call = "ok") =>
         /\ LastFetchOf(req[r])'.at = now
         /\ StoredFor(req[r])' = EntryOf(LastFetchOf(req[r]))'
         /\ resp'[r] = JsonResponse(LastFetchOf(req[r])'.data)
         /\ hist'[r].steps = SuccessCourse
         /\ \A q \in Reqs \ {r} :
              /\ pc'[q] = pc[q]
              /\ resp'[q] = resp[q]
              /\ hist'[q] = hist[q]]_vars

\* two requests for the same destination have both fetched, with different
\* payloads, and the entry is that of the second writer
C20_Witness ==
  /\ \A r \in Reqs :
       /\ pc[r] = "done"
       /\ req[r].route = "visa-info"
       /\ toUpperCase(req[r].param) = << "F", "R" >>
       /\ hist[r].steps = SuccessCourse
  /\ \E r, q \in Reqs :
       /\ resp[r] # resp[q]
       /\ StoredFor(req[r]).data = resp[q].body
       /\ PrevFetchOf(req[r]).data = resp[r].body
       /\ LastFetchOf(req[r]).data = resp[q].body

(***************************************************************************)
(* C21. One write per key per TTL period.  While the entry a successful    *)
(* fetch has written for a key is fresh, no request writes that key: no    *)
(* successful fetch for a key is followed by another one less than a TTL   *)
(* later, also when the requests for the key arrive together on a miss.    *)
(***************************************************************************)
C21_OneWritePerTTL ==
  /\ \A d \in UpperDests : ~truthy(last.info[d].prev)
  /\ ~truthy(last.map.prev)

(***************************************************************************)
(* C22. A put touches its own entry only.  When the provider call of a     *)
(* visa-info request settles, every entry of the check-cache file under    *)
(* another key is afterwards what it was before, whatever other requests   *)
(* are in flight, and the map-cache file is unchanged; when the call of a  *)
(* map route settles, the check-cache file is unchanged.                   *)
(***************************************************************************)
C22_PutKeepsOtherEntries ==
  [][\A r \in Reqs :
       Settles(r) =>
         IF req[r].route = "visa-info"
           THEN /\ mapFile' = mapFile
                /\ \A k \in DOMAIN Or(read(checkFile), EmptyObject).m :
                     k # KeyOf(req[r]) =>
                       /\ read(checkFile') # Null
                       /\ k \in DOMAIN read(checkFile').m
                       /\ read(checkFile').m[k] = read(checkFile).m[k]
           ELSE checkFile' = checkFile]_vars

\* requests for FR and for DE overlapped, and the file holds the entry of
\* each, the one of DE written while the one of FR was already there
C22_Witness ==
  /\ \A r \in Reqs : pc[r] = "done" /\ hist[r].call = "ok"
  /\ req[1].param = << "F", "R" >>
  /\ req[2].param = << "D", "E" >>
  /\ \A d \in { << "F", "R" >>, << "D", "E" >> } :
       /\ truthy(last.info[d].last)
       /\ CacheKey(PASSPORT_COUNTRY, d) \in DOMAIN checkFile.v.m
       /\ checkFile.v.m[CacheKey(PASSPORT_COUNTRY, d)]
            = EntryOf(last.info[d].last)

(***************************************************************************)
(* C23. Cache reads never modify the store.  The step in which a request   *)
(* looks its entry up (a hit, a miss or an expired entry) leaves both      *)
(* cache files as they were; a request that finds an expired entry gets    *)
(* what it would get had the key never been cached; and a cache file       *)
(* changes only in the step in which a provider call for its class         *)
(* settles with success, so an expired entry stays stored until then.      *)
(***************************************************************************)
\* the entry stored for request rq exists and is no longer fresh
Expired(rq) ==
  /\ truthy(StoredFor(rq))
  /\ ~Fresh(StoredFor(rq), now, TTLOf(rq))

\* how far the handler of request rq gets, and with what response, when
\* nothing has ever been cached
OnNeverCached(rq) ==
  IF rq.route = "visa-info"
    THEN LET res == VisaInfoLookup(Absent, apiKey, rq.param, now)
         IN  [pc   |-> IF res.fetch THEN "fetching" ELSE "done",
              resp |-> res.resp]
    ELSE LET res == GetVisaMapLookup(Absent, apiKey, now)
         IN  [pc   |-> IF res.fetch THEN "fetching" ELSE "done",
              resp |-> IF res.fetch
                         THEN NoResponse
                         ELSE MapRouteRespond(rq.route, rq.param, res.value)]

C23_ReadsKeepStore ==
  [][/\ \A r \in Reqs :
          Starts(r) =>
            /\ checkFile' = checkFile
            /\ mapFile' = mapFile
            /\ Expired(req'[r]) =>
                 /\ Has(hist'[r].steps, "MISS")
                 /\ pc'[r] = OnNeverCached(req'[r]).pc
                 /\ resp'[r] = OnNeverCached(req'[r]).resp
     /\ checkFile' # checkFile =>
          \E r \in Reqs : /\ Settles(r)
                          /\ req[r].route = "visa-info"
                          /\ hist'[r].call = "ok"
     /\ mapFile' # mapFile =>
          \E r \in Reqs : /\ Settles(r)
                          /\ req[r].route \in MapRoutes
                          /\ hist'[r].call = "ok"]_vars

\* a request that found its entry expired has had its provider call fail,
\* and the expired entry is still stored
C23_Witness ==
  \E r \in Reqs :
    /\ pc[r] = "done"
    /\ hist[r].call = "fail"
    /\ Expired(req[r])

(***************************************************************************)
(* C24. One map cache for three routes.  Once a map fetch has succeeded    *)
(* at time T, a request of GET countries, GET visa-map or GET              *)
(* countries/{id} that arrives before T + 7 days issues no provider call   *)
(* and is answered from the payload of the last successful fetch,          *)
(* whichever of the three routes fetched it.                               *)
(***************************************************************************)
C24_SharedMapCache ==
  [][\A r \in Reqs :
       (/\ Starts(r)
        /\ req'[r].route \in MapRoutes
        /\ truthy(last.map.last)
        /\ now < last.map.last.at + 7 * 24 * 60 * 60 * 1000) =>
         /\ pc'[r] = "done"
         /\ hist'[r].call = "none"
         /\ ~Has(hist'[r].steps, "PROVIDER_CALL")
         /\ resp'[r] = MapRouteRespond(req'[r].route, req'[r].param,
                                       last.map.last.data)]_vars

\* six days after GET countries fetched the map, GET countries/AE is
\* answered from that payload without a call
C24_Witness ==
  /\ pc = [r \in Reqs |-> "done"]
  /\ req[1].route = "countries"
  /\ hist[1].call = "ok"
  /\ req[2].route = "country"
  /\ req[2].param = << "A", "E" >>
  /\ Has(hist[2].steps, "HIT")
  /\ last.map.last.at = 0
  /\ now = TTL.map - TTL.check
  /\ resp[2] = CountryRespond(req[2].param, last.map.last.data)
  /\ resp[2].status = 200
  /\ resp[1] = CountriesRespond(last.map.last.data)

(***************************************************************************)
(* C25. A fresh entry is served without an API key.  A request that        *)
(* arrives while RAPIDAPI_KEY is empty and the entry stored for it is      *)
(* fresh is a hit, answered with the stored data as it would be with a     *)
(* key; the missing key is reported only after a miss.                     *)
(***************************************************************************)
C25_HitWithoutKey ==
  [][\A r \in Reqs :
       Starts(r) =>
         /\ (~apiKey /\ Fresh(StoredFor(req'[r]), now, TTLOf(req'[r]))) =>
              /\ pc'[r] = "done"
              /\ Has(hist'[r].steps, "HIT")
              /\ ~Has(hist'[r].steps, "NO_KEY")
              /\ resp'[r] = ServedWith(req'[r], StoredFor(req'[r]).data)
         /\ Has(hist'[r].steps, "NO_KEY") =>
              /\ ~apiKey
              /\ Has(hist'[r].steps, "MISS")]_vars

\* the process was restarted without its key, and a request has been
\* served from the entry fetched before the restart
C25_Witness ==
  \E r \in Reqs :
    /\ ~apiKey
    /\ faults.restarts > 0
    /\ pc[r] = "done"
    /\ req[r].route = "visa-info"
    /\ Has(hist[r].steps, "HIT")
    /\ resp[r] = JsonResponse(StoredFor(req[r]).data)

(***************************************************************************)
(* C26. One entry per route, keyed in uppercase.  A put and a get whose    *)
(* passport and destination differ only in letter case address the same    *)
(* entry: on every check-cache file the server reaches, a put under any    *)
(* spelling of SA and FR is a hit with the data put for a get under any    *)
(* other spelling, and the file has the one key SA-FR for the route.       *)
(***************************************************************************)
C26_KeyIgnoresCase ==
  /\ \A p1, p2 \in PassportSpellings, d1, d2 \in SameDest,
        data \in InfoPayloads :
       LET put == setCachedVisaInfo(checkFile, p1, d1, data, now)
       IN  /\ getCachedVisaInfo(put, p2, d2, now) = data
           /\ DOMAIN put.v.m = DOMAIN Or(read(checkFile), EmptyObject).m
                                 \cup { << "S", "A", "-", "F", "R" >> }
  /\ checkFile.t = "json" =>
       DOMAIN checkFile.v.m = { << "S", "A", "-", "F", "R" >> }

\* the entry fetched by a request for fr has served a request for FR
C26_Witness ==
  /\ pc = [r \in Reqs |-> "done"]
  /\ req[1].param = << "f", "r" >>
  /\ hist[1].call = "ok"
  /\ req[2].param = << "F", "R" >>
  /\ Has(hist[2].steps, "HIT")
  /\ resp[2] = JsonResponse(last.info[<< "F", "R" >>].last.data)
  /\ resp[2] = resp[1]

(***************************************************************************)
(* C27. SAU always carries the home status.  Whatever the visaColors prop  *)
(* of the map on display, the color table has "saudi" for SAU, the fill    *)
(* computed for SAU is the home color under every filter, and a geography  *)
(* that resolves to SAU is drawn in the home color.                        *)
(***************************************************************************)
C27_HomeAlwaysReserved ==
  shown # NoneShown =>
    /\ ColorKeyOf(countryColorMap(visaColors), SAU) = "saudi"
    /\ \A f \in Filters :
         getCountryColor(countryColorMap(visaColors), f, SAU)
           = STATUS_COLORS.saudi
    /\ shown.iso3 = SAU => shown.fill = STATUS_COLORS.saudi

(***************************************************************************)
(* C28. A click selects only a known, allowed country.  Every call of      *)
(* onCountryClick made by a click passes the lowercase alpha-2 code of     *)
(* the geography on display, which is then neither SAU nor IL; a click on  *)
(* SAU, on IL whatever its color, or on a geography with no alpha-2 code   *)
(* makes no call.                                                          *)
(***************************************************************************)
C28_ClickOnlySelectsAllowed ==
  clicks.n > 0 =>
    IF \/ shown.iso2 = << >>
       \/ shown.iso3 = SAU
       \/ shown.iso2 = << "I", "L" >>
      THEN clicks.called = << >>
      ELSE /\ clicks.called = [i \in 1..clicks.n |-> toLowerCase(shown.iso2)]
           /\ shown.iso2 \in DOMAIN ISO2_TO_ISO3
           /\ clicks.called[1] \notin { << "s", "a" >>, << "i", "l" >> }

\* Israel, drawn green by the color table, has been clicked and no country
\* was selected
C28_Witness ==
  /\ clicks.n > 0
  /\ shown.iso2 = << "I", "L" >>
  /\ shown.colorKey = "green"
  /\ clicks.called = << >>

\* France has been clicked and selected
C28_Selected ==
  /\ clicks.n > 0
  /\ shown.iso2 = << "F", "R" >>
  /\ clicks.called[1] = << "f", "r" >>

(***************************************************************************)
(* C29. A code of no table degrades to the default.  For a visaColors      *)
(* table, the color map holds exactly the alpha-3 codes of the listed      *)
(* codes that ISO2_TO_ISO3 knows, and SAU: a code it does not know adds    *)
(* nothing and takes nothing away, each known code has a color of an       *)
(* entry that lists it, and a geography whose alpha-3 code the color map   *)
(* does not hold is drawn in the default style under every filter.         *)
(***************************************************************************)
\* the codes an entry of a color table lists, trimmed and in uppercase
CodesOf(e) ==
  IF e.codes = << >> THEN { }
  ELSE { toUpperCase(trim(split(e.codes)[j])) : j \in 1..Len(split(e.codes)) }

C29_UnknownIsDefault ==
  /\ (truthy(visaColors) /\ visaColors.t = "colors") =>
       LET map     == countryColorMap(visaColors)
           entries == visaColors.entries
           known   == UNION { CodesOf(entries[i]) : i \in 1..Len(entries) }
                        \cap DOMAIN ISO2_TO_ISO3
       IN  /\ DOMAIN map = { ISO2_TO_ISO3[c] : c \in known } \cup { SAU }
           /\ \A c \in known :
                ISO2_TO_ISO3[c] # SAU =>
                  \E i \in 1..Len(entries) :
                    /\ c \in CodesOf(entries[i])
                    /\ map[ISO2_TO_ISO3[c]] = entries[i].color
  /\ (shown # NoneShown
        /\ shown.iso3 \notin DOMAIN countryColorMap(visaColors)) =>
       /\ shown.colorKey = "default"
       /\ shown.fill = STATUS_COLORS.default
       /\ \A f \in Filters :
            Draw(geo, visaColors, f).fill = STATUS_COLORS.default

\* with { green: "XX,FR", red: "ZZ", blue: "DE" } Germany, listed after
\* the codes of no table, is drawn blue
C29_Witness ==
  /\ visaColors = UnknownFirst
  /\ DOMAIN countryColorMap(visaColors)
       = { << "F", "R", "A" >>, << "D", "E", "U" >>, SAU }
  /\ shown.iso3 = << "D", "E", "U" >>
  /\ filter = "all"
  /\ shown.fill = STATUS_COLORS.blue

\* a geography of no table has been drawn in the default style
C29_UnresolvedDrawn ==
  /\ geo = Geography(<< "9", "9", "9" >>, << >>)
  /\ shown.iso3 = << "9", "9", "9" >>
  /\ shown.iso2 = << >>
  /\ shown.fill = STATUS_COLORS.default
  /\ shown.hover = HOVER_COLORS.default

(***************************************************************************)
(* C30. The numeric lookup is primary.  A geography resolves to the        *)
(* alpha-3 code NUMERIC_TO_ISO3 has for its identifier whenever the table  *)
(* has one, whatever ISO_A3 property the feed gives; to the ISO_A3         *)
(* property only when the table has none; and to the raw identifier only   *)
(* when both are missing.                                                  *)
(***************************************************************************)
C30_NumericFirst ==
  shown # NoneShown =>
    IF geo.id \in DOMAIN NUMERIC_TO_ISO3
      THEN shown.iso3 = NUMERIC_TO_ISO3[geo.id]
    ELSE IF geo.ISO_A3 # << >>
      THEN shown.iso3 = geo.ISO_A3
    ELSE shown.iso3 = geo.id

\* the geography 004 that the feed labels FRA has been resolved to AFG
C30_Witness ==
  /\ geo = Geography(<< "0", "0", "4" >>, << "F", "R", "A" >>)
  /\ shown.iso3 = << "A", "F", "G" >>
  /\ shown.iso2 = << "A", "F" >>

\* the geography -99 that the feed labels XKX has been resolved to XKX
C30_PropertyUsed ==
  /\ geo = Geography(<< "-", "9", "9" >>, << "X", "K", "X" >>)
  /\ shown.iso3 = << "X", "K", "X" >>

=============================================================================
